---- MODULE Spec2Model ----
(***************************************************************************)
(* Backtesting engine of the Blaze bot: filter gates, signal heuristics,   *)
(* weighted-vote combiners and the martingale simulation drivers of        *)
(* backend/backtest.py, backtest_v2.py, backtest_final.py,                 *)
(* backtest_premium.py and backtest_ultra.py.                              *)
(*                                                                         *)
(* Numbers the code computes in floating point are modelled as exact       *)
(* rationals <<n, d>> (d > 0, lowest terms).                               *)
(***************************************************************************)
EXTENDS Integers, Sequences, FiniteSets, TLC

R == "red"
B == "black"
W == "white"
Colors == {R, B, W}

\* ------------------------------------------------------------------------
\* Python list helpers
\* ------------------------------------------------------------------------

\* h[-n:]
LastN(h, n) ==
  IF Len(h) <= n THEN h ELSE SubSeq(h, Len(h) - n + 1, Len(h))

\* h.count(c)
Count(h, c) == Cardinality({i \in DOMAIN h : h[i] = c})

\* [c for c in h if c != 'white']
NonWhite(h) == SelectSeq(h, LAMBDA c : c # W)

\* sum(1 for i in range(len(h)-1) if h[i] != h[i+1])
Changes(h) == Cardinality({i \in 1..(Len(h) - 1) : h[i] # h[i + 1]})

\* all(h[i] != h[i+1] for i in range(len(h)-1))
Alternates(h) == \A i \in 1..(Len(h) - 1) : h[i] # h[i + 1]

\* length of the run of elements equal to the last one, at the end of h
RunAtEnd(h) ==
  IF h = <<>> THEN 1
  ELSE CHOOSE k \in 1..Len(h) :
         /\ \A i \in (Len(h) - k + 1)..Len(h) : h[i] = h[Len(h)]
         /\ (k = Len(h) \/ h[Len(h) - k] # h[Len(h)])

\* 'black' if c == 'red' else 'red'
Opposite(c) == IF c = R THEN B ELSE R

\* the colour itself: the pattern continued instead of turned
SameColour(c) == c

\* 'red' if c == 'black' else 'black'
OppositeOfBlack(c) == IF c = B THEN R ELSE B

Abs(x) == IF x < 0 THEN -x ELSE x

\* ------------------------------------------------------------------------
\* Exact rationals
\* ------------------------------------------------------------------------
RECURSIVE GCD(_, _)
GCD(a, b) == IF b = 0 THEN a ELSE GCD(b, a % b)

Q(n, d) ==
  LET g == GCD(Abs(n), d) IN
  IF g = 0 THEN <<0, 1>> ELSE <<n \div g, d \div g>>

QI(n) == <<n, 1>>
\* the operations reduce by common factors before they multiply
QAdd(x, y) ==
  LET g == GCD(x[2], y[2]) IN
  Q(x[1] * (y[2] \div g) + y[1] * (x[2] \div g), (x[2] \div g) * y[2])
QNeg(x) == <<-x[1], x[2]>>
QSub(x, y) == QAdd(x, QNeg(y))
QMul(x, y) ==
  LET a == Q(x[1], y[2])
      b == Q(y[1], x[2])
  IN <<a[1] * b[1], a[2] * b[2]>>
QLe(x, y) ==
  LET g == GCD(x[2], y[2]) IN x[1] * (y[2] \div g) <= y[1] * (x[2] \div g)
QLt(x, y) ==
  LET g == GCD(x[2], y[2]) IN x[1] * (y[2] \div g) < y[1] * (x[2] \div g)
QGe(x, y) == QLe(y, x)
QGt(x, y) == QLt(y, x)
QMin(x, y) == IF QLe(x, y) THEN x ELSE y

RECURSIVE QSum(_)
QSum(s) == IF s = <<>> THEN QI(0) ELSE QAdd(Head(s), QSum(Tail(s)))

\* statistics.mean
QMean(s) == QMul(QSum(s), Q(1, Len(s)))

\* a heuristic's opinion (colour, confidence)
Sig(c, q) == [color |-> c, conf |-> q]
\* a combiner's decision (colour, confidence, label, enter)
Dec(c, q, l, e) == [color |-> c, conf |-> q, label |-> l, enter |-> e]
\* a filter's verdict (skip, reason)
Verdict(s, r) == [skip |-> s, reason |-> r]

\* ------------------------------------------------------------------------
\* Weighted vote shared by the combiners.  sigs is the sequence of
\* [name, color, conf] in the order the code's dict is iterated.
\* ------------------------------------------------------------------------
NSig(n, s) == [name |-> n, color |-> s.color, conf |-> s.conf]

\* x / y for y > 0
QDiv(x, y) == QMul(x, <<y[2], y[1]>>)

\* a vote that weighs the distance of the confidence from 100
VotePowerInverse(conf, w) == QMul(QSub(QI(1), QMul(conf, Q(1, 100))), w)

\* votes[color] += (conf / 100) * w   for one heuristic
VotePower(conf, w) == QMul(QMul(conf, Q(1, 100)), w)

NoBest == [name |-> "none", color |-> "skip", conf |-> QI(0)]

Confs(sigs) == [i \in DOMAIN sigs |-> sigs[i].conf]

\* ------------------------------------------------------------------------
\* backtest_final.py  (labels are written without their accents)
\* ------------------------------------------------------------------------
FinalMinHistory == 20

\* the conditions with the streak bound of should_skip_entry (7) in place of 6
FinalCondStreak7(k, history) ==
  LET last_20 == LastN(history, 20)
      last_10 == LastN(history, 10)
      white_20 == Count(last_20, W)
      red_20 == Count(last_20, R)
      black_20 == Count(last_20, B)
      total_20 == red_20 + black_20
      changes == Changes(last_20)
      streak == RunAtEnd(NonWhite(history))
      non_white == NonWhite(last_10)
  IN
  CASE k = 1 -> Len(history) < FinalMinHistory
    [] k = 2 -> white_20 >= 2
    [] k = 3 -> total_20 > 0
                /\ QLt(Q(Abs(red_20 - black_20), total_20), Q(15, 100))
    [] k = 4 -> changes >= 14
    [] k = 5 -> streak >= 7
    [] k = 6 -> Len(non_white) >= 8 /\ Alternates(non_white)

\* the conditions of advanced_filter, numbered in the order the code tests
\* them: 1 insufficient history, 2 recent White, 3 balanced colours,
\* 4 chaotic alternation, 5 long streak, 6 perfect alternation
FinalCond(k, history) ==
  LET last_20 == LastN(history, 20)
      last_10 == LastN(history, 10)
      white_20 == Count(last_20, W)
      red_20 == Count(last_20, R)
      black_20 == Count(last_20, B)
      total_20 == red_20 + black_20
      changes == Changes(last_20)
      streak == RunAtEnd(NonWhite(history))
      non_white == NonWhite(last_10)
  IN
  CASE k = 1 -> Len(history) < FinalMinHistory
    [] k = 2 -> white_20 >= 2
    [] k = 3 -> total_20 > 0
                /\ QLt(Q(Abs(red_20 - black_20), total_20), Q(15, 100))
    [] k = 4 -> changes >= 14
    [] k = 5 -> streak >= 6
    [] k = 6 -> Len(non_white) >= 8 /\ Alternates(non_white)

FinalReason(k) ==
  CASE k = 1 -> "historico_insuficiente"
    [] k = 2 -> "branco_recente"
    [] k = 3 -> "equilibrado"
    [] k = 4 -> "caotico"
    [] k = 5 -> "sequencia_longa"
    [] k = 6 -> "alternancia"

\* the streak tested before the balance and the alternation count
advanced_filter_streak_first(history) ==
  IF FinalCond(1, history) THEN Verdict(TRUE, FinalReason(1))
  ELSE IF FinalCond(2, history) THEN Verdict(TRUE, FinalReason(2))
  ELSE IF FinalCond(5, history) THEN Verdict(TRUE, FinalReason(5))
  ELSE IF FinalCond(3, history) THEN Verdict(TRUE, FinalReason(3))
  ELSE IF FinalCond(4, history) THEN Verdict(TRUE, FinalReason(4))
  ELSE IF FinalCond(6, history) THEN Verdict(TRUE, FinalReason(6))
  ELSE Verdict(FALSE, "ok")

advanced_filter(history) ==
  IF FinalCond(1, history) THEN Verdict(TRUE, FinalReason(1))
  ELSE IF FinalCond(2, history) THEN Verdict(TRUE, FinalReason(2))
  ELSE IF FinalCond(3, history) THEN Verdict(TRUE, FinalReason(3))
  ELSE IF FinalCond(4, history) THEN Verdict(TRUE, FinalReason(4))
  ELSE IF FinalCond(5, history) THEN Verdict(TRUE, FinalReason(5))
  ELSE IF FinalCond(6, history) THEN Verdict(TRUE, FinalReason(6))
  ELSE Verdict(FALSE, "ok")

SkipSig == Sig("skip", QI(0))

\* lst.count('red') / len(lst) if lst else 0.5
RedRatio(lst) == IF lst = <<>> THEN Q(1, 2) ELSE Q(Count(lst, R), Len(lst))

final_trend_strategy(history) ==
  IF Len(history) < 40 THEN SkipSig
  ELSE
  LET tf5 == NonWhite(LastN(history, 5))
      tf10 == NonWhite(LastN(history, 10))
      tf20 == NonWhite(LastN(history, 20))
      tf40 == NonWhite(LastN(history, 40))
  IN
  IF tf5 = <<>> \/ tf10 = <<>> \/ tf20 = <<>> \/ tf40 = <<>> THEN SkipSig
  ELSE
  LET score == QSum(<< QMul(RedRatio(tf5), Q(40, 100)),
                       QMul(RedRatio(tf10), Q(30, 100)),
                       QMul(RedRatio(tf20), Q(20, 100)),
                       QMul(RedRatio(tf40), Q(10, 100)) >>)
  IN
  IF QGe(score, Q(62, 100))
    THEN Sig(R, QMin(QAdd(QI(60), QMul(QSub(score, Q(1, 2)), QI(150))), QI(90)))
  ELSE IF QLe(score, Q(38, 100))
    THEN Sig(B, QMin(QAdd(QI(60), QMul(QSub(Q(1, 2), score), QI(150))), QI(90)))
  ELSE SkipSig

final_reversal_strategy(history) ==
  IF Len(history) < 15 THEN SkipSig
  ELSE
  LET non_white == NonWhite(history) IN
  IF Len(non_white) < 10 THEN SkipSig
  ELSE
  LET last == non_white[Len(non_white)]
      streak == RunAtEnd(non_white)
      opposite == Opposite(last)
      last_30 == NonWhite(LastN(history, 30))
      opposite_ratio ==
        IF last_30 = <<>> THEN Q(1, 2) ELSE Q(Count(last_30, opposite), Len(last_30))
  IN
  IF streak >= 4 THEN
    IF QLt(opposite_ratio, Q(40, 100))
      THEN Sig(opposite,
               QMin(QAdd(QI(65 + (streak - 4) * 5),
                         QMul(QSub(Q(1, 2), opposite_ratio), QI(40))), QI(88)))
      ELSE Sig(opposite, QMin(QI(60 + (streak - 4) * 4), QI(80)))
  ELSE SkipSig

\* three pairs AABBCC at the end of nw, adjacent pairs of different colour
Pairs3(nw) ==
  LET n == Len(nw) IN
  /\ nw[n - 5] = nw[n - 4] /\ nw[n - 3] = nw[n - 2] /\ nw[n - 1] = nw[n]
  /\ nw[n - 5] # nw[n - 3] /\ nw[n - 3] # nw[n - 1]

\* four pairs AABBCCDD at the end of nw
Pairs4(nw) ==
  LET n == Len(nw) IN
  /\ nw[n - 7] = nw[n - 6] /\ nw[n - 5] = nw[n - 4]
  /\ nw[n - 3] = nw[n - 2] /\ nw[n - 1] = nw[n]
  /\ nw[n - 7] # nw[n - 5] /\ nw[n - 5] # nw[n - 3] /\ nw[n - 3] # nw[n - 1]

\* three triples AAABBBCCC at the end of nw
Triples3(nw) ==
  LET n == Len(nw) IN
  /\ nw[n - 8] = nw[n - 7] /\ nw[n - 7] = nw[n - 6]
  /\ nw[n - 5] = nw[n - 4] /\ nw[n - 4] = nw[n - 3]
  /\ nw[n - 2] = nw[n - 1] /\ nw[n - 1] = nw[n]
  /\ nw[n - 8] # nw[n - 5] /\ nw[n - 5] # nw[n - 2]

\* the pattern heuristic without its test on the length of the history
final_pattern_unguarded(history) ==
  LET non_white == NonWhite(LastN(history, 12)) IN
  IF Len(non_white) < 8 THEN SkipSig
  ELSE IF Len(non_white) >= 6 /\ Pairs3(non_white)
    THEN Sig(OppositeOfBlack(non_white[Len(non_white)]), QI(78))
  ELSE IF Len(non_white) >= 9 /\ Triples3(non_white)
    THEN Sig(OppositeOfBlack(non_white[Len(non_white)]), QI(80))
  ELSE SkipSig

final_pattern_strategy(history) ==
  IF Len(history) < 12 THEN SkipSig
  ELSE
  LET non_white == NonWhite(LastN(history, 12)) IN
  IF Len(non_white) < 8 THEN SkipSig
  ELSE IF Len(non_white) >= 6 /\ Pairs3(non_white)
    THEN Sig(OppositeOfBlack(non_white[Len(non_white)]), QI(78))
  ELSE IF Len(non_white) >= 9 /\ Triples3(non_white)
    THEN Sig(OppositeOfBlack(non_white[Len(non_white)]), QI(80))
  ELSE SkipSig

FinalSignals(history) ==
  << NSig("trend", final_trend_strategy(history)),
     NSig("reversal", final_reversal_strategy(history)),
     NSig("pattern", final_pattern_strategy(history)) >>

FinalWeight(name) ==
  CASE name = "trend" -> Q(10, 10)
    [] name = "reversal" -> Q(13, 10)
    [] name = "pattern" -> Q(15, 10)

\* if color in ['red', 'black'] and conf >= 60
FinalSurvives(s) == s.color \in {R, B} /\ QGe(s.conf, QI(60))

\* ------------------------------------------------------------------------
\* backtest_ultra.py
\* ------------------------------------------------------------------------
UltraMinHistory == 30

\* the conditions of ultra_filter, numbered in the order the code tests
\* them: 1 insufficient history, 2 recent White, 3 balanced colours,
\* 4 chaotic alternation, 5 long streak, 6 perfect alternation,
\* 7 contradictory trend
UltraCond(k, colors) ==
  LET last_20 == LastN(colors, 20)
      last_10 == LastN(colors, 10)
      last_5 == LastN(colors, 5)
      white_15 == Count(LastN(colors, 15), W)
      red_20 == Count(last_20, R)
      black_20 == Count(last_20, B)
      total_20 == red_20 + black_20
      changes_20 == Changes(last_20)
      streak == RunAtEnd(NonWhite(colors))
      nw_10 == NonWhite(last_10)
      red_5 == Count(last_5, R)
      red_10 == Count(last_10, R)
      trend_5 == IF red_5 >= 3 THEN R ELSE IF red_5 <= 2 THEN B ELSE "neutral"
      trend_10 == IF red_10 >= 6 THEN R ELSE IF red_10 <= 4 THEN B ELSE "neutral"
  IN
  CASE k = 1 -> Len(colors) < UltraMinHistory
    [] k = 2 -> white_15 >= 1
    [] k = 3 -> total_20 > 0
                /\ QLt(Q(Abs(red_20 - black_20), total_20), Q(20, 100))
    [] k = 4 -> changes_20 >= 13
    [] k = 5 -> streak >= 6
    [] k = 6 -> Len(nw_10) >= 7 /\ Alternates(nw_10)
    [] k = 7 -> trend_5 # "neutral" /\ trend_10 # "neutral" /\ trend_5 # trend_10

UltraReason(k) ==
  CASE k = 1 -> "historico_insuficiente"
    [] k = 2 -> "branco_recente"
    [] k = 3 -> "equilibrado"
    [] k = 4 -> "caotico"
    [] k = 5 -> "sequencia_longa"
    [] k = 6 -> "alternancia_perfeita"
    [] k = 7 -> "tendencia_contraditoria"

ultra_filter(colors) ==
  IF UltraCond(1, colors) THEN Verdict(TRUE, UltraReason(1))
  ELSE IF UltraCond(2, colors) THEN Verdict(TRUE, UltraReason(2))
  ELSE IF UltraCond(3, colors) THEN Verdict(TRUE, UltraReason(3))
  ELSE IF UltraCond(4, colors) THEN Verdict(TRUE, UltraReason(4))
  ELSE IF UltraCond(5, colors) THEN Verdict(TRUE, UltraReason(5))
  ELSE IF UltraCond(6, colors) THEN Verdict(TRUE, UltraReason(6))
  ELSE IF UltraCond(7, colors) THEN Verdict(TRUE, UltraReason(7))
  ELSE Verdict(FALSE, "ok")

ultra_trend(colors) ==
  IF Len(colors) < 50 THEN SkipSig
  ELSE
  LET r5 == RedRatio(NonWhite(LastN(colors, 5)))
      r10 == RedRatio(NonWhite(LastN(colors, 10)))
      r20 == RedRatio(NonWhite(LastN(colors, 20)))
      r30 == RedRatio(NonWhite(LastN(colors, 30)))
      r50 == RedRatio(NonWhite(LastN(colors, 50)))
      score == QSum(<< QMul(r5, Q(35, 100)), QMul(r10, Q(25, 100)),
                       QMul(r20, Q(20, 100)), QMul(r30, Q(12, 100)),
                       QMul(r50, Q(8, 100)) >>)
  IN
  IF QGe(score, Q(65, 100)) THEN
    IF QGe(r5, Q(60, 100)) /\ QGe(r10, Q(55, 100)) /\ QGe(r20, Q(52, 100))
      THEN Sig(R, QMin(QAdd(QI(70), QMul(QSub(score, Q(1, 2)), QI(100))), QI(92)))
      ELSE SkipSig
  ELSE IF QLe(score, Q(35, 100)) THEN
    IF QLe(r5, Q(40, 100)) /\ QLe(r10, Q(45, 100)) /\ QLe(r20, Q(48, 100))
      THEN Sig(B, QMin(QAdd(QI(70), QMul(QSub(Q(1, 2), score), QI(100))), QI(92)))
      ELSE SkipSig
  ELSE SkipSig

ultra_reversal(colors) ==
  IF Len(colors) < 20 THEN SkipSig
  ELSE
  LET non_white == NonWhite(colors) IN
  IF Len(non_white) < 15 THEN SkipSig
  ELSE
  LET last == non_white[Len(non_white)]
      streak == RunAtEnd(non_white)
      opposite == Opposite(last)
      last_40 == NonWhite(LastN(colors, 40))
  IN
  IF streak \in {4, 5} /\ last_40 # <<>> THEN
    LET opposite_ratio == Q(Count(last_40, opposite), Len(last_40)) IN
    IF QLt(opposite_ratio, Q(42, 100))
      THEN Sig(opposite,
               QMin(QAdd(QI(72 + (streak - 4) * 5),
                         QMul(QSub(Q(1, 2), opposite_ratio), QI(50))), QI(90)))
      ELSE SkipSig
  ELSE SkipSig

ultra_pattern(colors) ==
  IF Len(colors) < 15 THEN SkipSig
  ELSE
  LET non_white == NonWhite(LastN(colors, 15)) IN
  IF Len(non_white) < 10 THEN SkipSig
  ELSE IF Len(non_white) >= 8 /\ Pairs4(non_white)
    THEN Sig(OppositeOfBlack(non_white[Len(non_white)]), QI(85))
  ELSE IF Len(non_white) >= 9 /\ Triples3(non_white)
    THEN Sig(OppositeOfBlack(non_white[Len(non_white)]), QI(88))
  ELSE SkipSig

UltraSignals(colors) ==
  << NSig("trend", ultra_trend(colors)),
     NSig("reversal", ultra_reversal(colors)),
     NSig("pattern", ultra_pattern(colors)) >>

UltraWeight(name) ==
  CASE name = "trend" -> Q(10, 10)
    [] name = "reversal" -> Q(13, 10)
    [] name = "pattern" -> Q(20, 10)

\* if color in ['red', 'black'] and conf >= 70
UltraSurvives(s) == s.color \in {R, B} /\ QGe(s.conf, QI(70))

\* sum(1 for _, c, _ in valid_strategies if c == color)
Agreeing(valid, c) == Len(SelectSeq(valid, LAMBDA s : s.color = c))

\* ------------------------------------------------------------------------
\* backtest_premium.py
\* ------------------------------------------------------------------------
PSig(c, q, p) == [color |-> c, conf |-> q, pattern |-> p]

detect_high_confidence_pattern(colors) ==
  IF Len(colors) < 30 THEN PSig("skip", QI(0), "historico_insuficiente")
  ELSE
  LET non_white == NonWhite(colors) IN
  IF Len(non_white) < 25 THEN PSig("skip", QI(0), "dados_insuficientes")
  ELSE
  LET last_30 == LastN(non_white, 30)
      last_20 == LastN(non_white, 20)
      last_10 == LastN(non_white, 10)
      last_5 == LastN(non_white, 5)
      streak == RunAtEnd(non_white)
      last_color == non_white[Len(non_white)]
      opposite == Opposite(last_color)
      opposite_ratio == Q(Count(last_30, opposite), Len(last_30))
      red_5 == Count(last_5, R)
      red_10 == Count(last_10, R)
      red_20 == Count(last_20, R)
      red_30 == Count(last_30, R)
      red_ratio_30 == Q(red_30, 30)
  IN
  IF streak \in {4, 5} /\ QLt(opposite_ratio, Q(38, 100))
    THEN PSig(opposite,
              QMin(QAdd(QAdd(QI(78), QMul(QSub(Q(1, 2), opposite_ratio), QI(80))),
                        QI((streak - 4) * 3)), QI(95)),
              IF streak = 4 THEN "reversao_forte_4x" ELSE "reversao_forte_5x")
  ELSE IF Len(non_white) >= 10 /\ Pairs4(non_white)
    THEN PSig(OppositeOfBlack(non_white[Len(non_white)]), QI(88), "padrao_2-2")
  ELSE IF Len(non_white) >= 12 /\ Triples3(non_white)
    THEN PSig(OppositeOfBlack(non_white[Len(non_white)]), QI(90), "padrao_3-3")
  ELSE IF red_5 >= 4 /\ red_10 >= 7 /\ red_20 >= 13 /\ red_30 >= 19
    THEN PSig(R, QI(85), "tendencia_vermelha_total")
  ELSE IF red_5 <= 1 /\ red_10 <= 3 /\ red_20 <= 7 /\ red_30 <= 11
    THEN PSig(B, QI(85), "tendencia_preta_total")
  ELSE IF QLt(red_ratio_30, Q(33, 100)) /\ red_5 >= 2
    THEN PSig(R, QI(80), "correcao_vermelha")
  ELSE IF QGt(red_ratio_30, Q(67, 100)) /\ red_5 <= 3
    THEN PSig(B, QI(80), "correcao_preta")
  ELSE PSig("skip", QI(0), "sem_padrao_forte")

premium_filter(colors) ==
  IF Len(colors) < 25 THEN Verdict(TRUE, "historico_insuficiente")
  ELSE IF Count(LastN(colors, 10), W) >= 1 THEN Verdict(TRUE, "branco_recente")
  ELSE IF Changes(LastN(colors, 15)) >= 11 THEN Verdict(TRUE, "caotico")
  ELSE Verdict(FALSE, "ok")

premium_strategy(colors) ==
  LET f == premium_filter(colors) IN
  IF f.skip THEN Dec("skip", QI(0), f.reason, FALSE)
  ELSE
  LET d == detect_high_confidence_pattern(colors) IN
  IF d.color = "skip" \/ QLt(d.conf, QI(78))
    THEN Dec("skip", QI(0), d.pattern, FALSE)
    ELSE Dec(d.color, d.conf, d.pattern, TRUE)

\* ------------------------------------------------------------------------
\* backtest_v2.py
\* ------------------------------------------------------------------------

\* streak = 1; for c in reversed(history[:-1]):
\*     if c == last_color and c != 'white': streak += 1 else: break
RawStreak(history) ==
  IF history = <<>> \/ history[Len(history)] = W THEN 1 ELSE RunAtEnd(history)

should_skip_entry(history) ==
  IF Len(history) < 15 THEN Verdict(TRUE, "historico insuficiente")
  ELSE
  LET last_15 == LastN(history, 15)
      red_15 == Count(last_15, R)
      black_15 == Count(last_15, B)
  IN
  IF Count(last_15, W) >= 2 THEN Verdict(TRUE, "muito branco recente")
  ELSE IF Abs(red_15 - black_15) <= 2 THEN Verdict(TRUE, "sem tendencia clara")
  ELSE IF Changes(last_15) >= 11 THEN Verdict(TRUE, "padrao caotico")
  ELSE IF RawStreak(history) >= 7 THEN Verdict(TRUE, "sequencia muito longa")
  ELSE Verdict(FALSE, "ok")

calculate_confidence_bonus(history, color) ==
  IF Len(history) < 20 THEN 0
  ELSE
  LET last_5 == LastN(history, 5)
      red_20 == Count(LastN(history, 20), R)
      red_5 == Count(last_5, R)
  IN
    (IF (color = R /\ red_20 >= 12) \/ (color = B /\ red_20 <= 8) THEN 5 ELSE 0)
  + (IF (color = R /\ red_5 >= 4) \/ (color = B /\ red_5 <= 1) THEN 3 ELSE 0)
  + (IF last_5[1] = last_5[2] /\ last_5[2] = last_5[3] /\ color # last_5[1]
       THEN 4 ELSE 0)

strategy_smart_trend(history) ==
  IF Len(history) < 30 THEN Sig(R, QI(50))
  ELSE
  LET red_5 == Count(LastN(history, 5), R)
      red_10 == Count(LastN(history, 10), R)
      red_20 == Count(LastN(history, 20), R)
      red_30 == Count(LastN(history, 30), R)
      red_score == QSum(<< QMul(Q(red_5, 5), Q(35, 100)),
                           QMul(Q(red_10, 10), Q(30, 100)),
                           QMul(Q(red_20, 20), Q(20, 100)),
                           QMul(Q(red_30, 30), Q(15, 100)) >>)
  IN
  IF QGe(red_score, Q(58, 100))
    THEN Sig(R, QMin(QAdd(QI(60), QMul(QSub(red_score, Q(1, 2)), QI(120))), QI(88)))
  ELSE IF QLe(red_score, Q(42, 100))
    THEN Sig(B, QMin(QAdd(QI(60), QMul(QSub(Q(1, 2), red_score), QI(120))), QI(88)))
  ELSE Sig(IF QGe(red_score, Q(1, 2)) THEN R ELSE B, QI(52))

\* confidence_map.get(streak, 80)
ConfidenceMap(streak) ==
  CASE streak = 4 -> 62 [] streak = 5 -> 68 [] streak = 6 -> 74
    [] streak = 7 -> 78 [] OTHER -> 80

strategy_smart_reversal(history) ==
  IF Len(history) < 8 THEN Sig(R, QI(50))
  ELSE
  LET last_color == history[Len(history)] IN
  IF last_color = W THEN Sig(R, QI(52))
  ELSE
  LET streak == RawStreak(history)
      opposite == Opposite(last_color)
      last_30 == LastN(history, 30)
      confidence == ConfidenceMap(streak)
                    + (IF QLt(QI(Count(last_30, opposite)),
                              QMul(QI(Len(last_30)), Q(35, 100)))
                         THEN 5 ELSE 0)
  IN
  IF streak >= 4 THEN Sig(opposite, QMin(QI(confidence), QI(85)))
  ELSE Sig(R, QI(50))

strategy_pattern_recognition(history) ==
  IF Len(history) < 12 THEN Sig(R, QI(50))
  ELSE
  LET colors_only == NonWhite(LastN(history, 6))
      last_8 == NonWhite(LastN(history, 8))
      red_12 == Count(LastN(history, 12), R)
  IN
  IF Len(colors_only) >= 6 /\ Pairs3(colors_only)
    THEN Sig(OppositeOfBlack(colors_only[5]), QI(75))
  ELSE IF Len(last_8) >= 6 /\ Alternates(last_8)
    THEN Sig(Opposite(last_8[Len(last_8)]), QI(70))
  ELSE IF red_12 >= 9 THEN Sig(B, QI(68))
  ELSE IF red_12 <= 3 THEN Sig(R, QI(68))
  ELSE Sig(R, QI(50))

\* the division by the number of non-white outcomes of the last 30 raises
\* ZeroDivisionError when there is none
RaiseSig == Sig("ZeroDivisionError", QI(0))

strategy_statistical_edge(history) ==
  IF Len(history) < 50 THEN Sig(R, QI(50))
  ELSE
  LET red_count == Count(history, R)
      black_count == Count(history, B)
      \* expected = (total - whites) / 2
      expected == Q(Len(history) - Count(history, W), 2)
      red_deviation == QSub(QI(red_count), expected)
      \* abs(red_deviation) > 2 * (expected * 0.5) ** 0.5, both sides squared
      far == QGt(QMul(red_deviation, red_deviation), QMul(QI(2), expected))
      recent_30 == LastN(history, 30)
      red_recent == Count(recent_30, R)
      nw_recent == Len(NonWhite(recent_30))
  IN
  IF far THEN (IF QGt(red_deviation, QI(0)) THEN Sig(B, QI(65)) ELSE Sig(R, QI(65)))
  ELSE IF nw_recent = 0 THEN RaiseSig
  ELSE
  LET red_pct_recent == Q(red_recent, nw_recent)
      red_pct_total == IF red_count + black_count > 0
                         THEN Q(red_count, red_count + black_count) ELSE Q(1, 2)
  IN
  IF QGt(red_pct_recent, QAdd(red_pct_total, Q(1, 10))) THEN Sig(B, QI(62))
  ELSE IF QLt(red_pct_recent, QSub(red_pct_total, Q(1, 10))) THEN Sig(R, QI(62))
  ELSE Sig(R, QI(50))

V2Signals(history) ==
  << NSig("smart_trend", strategy_smart_trend(history)),
     NSig("smart_reversal", strategy_smart_reversal(history)),
     NSig("pattern", strategy_pattern_recognition(history)),
     NSig("statistical", strategy_statistical_edge(history)) >>

V2Weight(name) ==
  CASE name = "smart_trend" -> Q(10, 10)
    [] name = "smart_reversal" -> Q(15, 10)
    [] name = "pattern" -> Q(18, 10)
    [] name = "statistical" -> Q(12, 10)

\* if color in ['red', 'black'] and confidence > 55
V2Survives(s) == s.color \in {R, B} /\ QGt(s.conf, QI(55))

\* ------------------------------------------------------------------------
\* backtest.py  (the lenient variant)
\* ------------------------------------------------------------------------
NeutralSig == Sig(R, QI(50))

strategy_tendencia_v2(history, lookback) ==
  IF Len(history) < lookback THEN NeutralSig
  ELSE
  LET recent == LastN(history, lookback)
      red_count == Count(recent, R)
      black_count == Count(recent, B)
      total == red_count + black_count
  IN
  IF total = 0 THEN NeutralSig
  ELSE
  LET red_pct == Q(red_count, total) IN
  IF QGe(red_pct, Q(60, 100))
    THEN Sig(R, QMin(QAdd(QI(50), QMul(QSub(red_pct, Q(1, 2)), QI(80))), QI(90)))
  ELSE IF QLe(red_pct, Q(40, 100))
    THEN Sig(B, QMin(QAdd(QI(50), QMul(QSub(Q(1, 2), red_pct), QI(80))), QI(90)))
  ELSE Sig(IF red_count >= black_count THEN R ELSE B, QI(55))

Min(a, b) == IF a <= b THEN a ELSE b

strategy_reversao_v2(history, min_streak) ==
  IF Len(history) < 5 THEN NeutralSig
  ELSE
  LET last_color == history[Len(history)]
      streak == RawStreak(history)
  IN
  IF last_color = W THEN Sig(R, QI(55))
  ELSE IF streak >= min_streak
    THEN Sig(Opposite(last_color), QI(60 + Min((streak - min_streak) * 5, 25)))
  ELSE NeutralSig

strategy_padrao_duplo(history) ==
  IF Len(history) < 6 THEN NeutralSig
  ELSE IF Pairs3(LastN(history, 6))
    THEN Sig(Opposite(history[Len(history)]), QI(72))
  ELSE IF Len(history) >= 9 /\ Triples3(LastN(history, 9))
    THEN Sig(Opposite(history[Len(history)]), QI(75))
  ELSE NeutralSig

strategy_equilibrio_forcado(history, window) ==
  IF Len(history) < window THEN NeutralSig
  ELSE
  LET recent == LastN(history, window)
      red_count == Count(recent, R)
      black_count == Count(recent, B)
      total == red_count + black_count
      expected == Q(total, 2)
      red_deviation == QSub(QI(red_count), expected)
      black_deviation == QSub(QI(black_count), expected)
      MinQ(x, y) == IF QLe(x, y) THEN x ELSE y
  IN
  IF total = 0 THEN NeutralSig
  ELSE IF QGt(red_deviation, QI(5))
    THEN Sig(B, QAdd(QI(55), MinQ(QMul(red_deviation, QI(2)), QI(30))))
  ELSE IF QGt(black_deviation, QI(5))
    THEN Sig(R, QAdd(QI(55), MinQ(QMul(black_deviation, QI(2)), QI(30))))
  ELSE NeutralSig

strategy_anti_padrao(history) ==
  IF Len(history) < 10 THEN SkipSig
  ELSE
  LET last_10 == LastN(history, 10) IN
  IF Count(last_10, W) >= 2 THEN SkipSig
  ELSE IF Abs(Count(last_10, R) - Count(last_10, B)) <= 1 THEN SkipSig
  ELSE Sig("continue", QI(100))

strategy_momentum(history) ==
  IF Len(history) < 8 THEN NeutralSig
  ELSE
  LET last_3 == LastN(history, 3) IN
  IF last_3[1] = last_3[2] /\ last_3[2] = last_3[3] /\ last_3[1] # W
    THEN Sig(last_3[1], QI(68))
  ELSE IF last_3[1] # last_3[2] /\ last_3[2] # last_3[3]
    THEN Sig(Opposite(last_3[3]), QI(65))
  ELSE NeutralSig

LenientSignals(history) ==
  << NSig("tendencia", strategy_tendencia_v2(history, 15)),
     NSig("reversao", strategy_reversao_v2(history, 4)),
     NSig("padrao_duplo", strategy_padrao_duplo(history)),
     NSig("equilibrio", strategy_equilibrio_forcado(history, 30)),
     NSig("momentum", strategy_momentum(history)) >>

LenientWeight(name) ==
  CASE name = "tendencia" -> Q(12, 10)
    [] name = "reversao" -> Q(15, 10)
    [] name = "padrao_duplo" -> Q(18, 10)
    [] name = "equilibrio" -> Q(10, 10)
    [] name = "momentum" -> Q(11, 10)

\* if color in ['red', 'black']   (no minimum confidence)
LenientSurvives(s) == s.color \in {R, B}

V2NoBest == [name |-> "combined", color |-> "skip", conf |-> QI(0)]

\* ------------------------------------------------------------------------
\* The voting loop of the four voting combiners
\* ------------------------------------------------------------------------
Voting == {"lenient", "v2", "final", "ultra"}

Signals(v, h) ==
  CASE v = "final" -> FinalSignals(h)
    [] v = "ultra" -> UltraSignals(h)
    [] v = "v2" -> V2Signals(h)
    [] v = "lenient" -> LenientSignals(h)

Survives(v, s) ==
  CASE v = "final" -> FinalSurvives(s)
    [] v = "ultra" -> UltraSurvives(s)
    [] v = "v2" -> V2Survives(s)
    [] v = "lenient" -> LenientSurvives(s)

Weight(v, name) ==
  CASE v = "final" -> FinalWeight(name)
    [] v = "ultra" -> UltraWeight(name)
    [] v = "v2" -> V2Weight(name)
    [] v = "lenient" -> LenientWeight(name)

\* the votes[c] the loop has accumulated after all of sigs
RECURSIVE Votes(_, _, _)
Votes(v, sigs, c) ==
  IF sigs = <<>> THEN QI(0)
  ELSE LET s == sigs[Len(sigs)]
           rest == Votes(v, SubSeq(sigs, 1, Len(sigs) - 1), c)
       IN IF Survives(v, s) /\ s.color = c
            THEN QAdd(rest, VotePower(s.conf, Weight(v, s.name)))
            ELSE rest

\* the heuristics whose vote is counted, in iteration order
Surviving(v, sigs) == SelectSeq(sigs, LAMBDA s : Survives(v, s))

\* best = (color, conf, name): replaced only by a strictly higher confidence
RECURSIVE BestOf(_, _)
BestOf(v, sigs) ==
  IF sigs = <<>> THEN (IF v \in {"v2", "lenient"} THEN V2NoBest ELSE NoBest)
  ELSE LET s == sigs[Len(sigs)]
           b == BestOf(v, SubSeq(sigs, 1, Len(sigs) - 1))
       IN IF Survives(v, s) /\ QGt(s.conf, b.conf) THEN s ELSE b

\* the vote with the consensus confidence also given to an override entry
FinalVoteAveraged(sigs) ==
  LET red == Votes("final", sigs, R)
      black == Votes("final", sigs, B)
      confidences == Confs(Surviving("final", sigs))
      best == BestOf("final", sigs)
      total == QAdd(red, black)
  IN
  IF total = QI(0) THEN Dec("skip", QI(0), "sem_sinal", FALSE)
  ELSE
  LET red_ratio == QDiv(red, total)
      avg_conf == IF confidences # <<>> THEN QMean(confidences) ELSE QI(60)
  IN
  IF QGe(red_ratio, Q(70, 100))
    THEN Dec(R, QMin(QAdd(avg_conf, QI(5)), QI(92)), best.name, TRUE)
  ELSE IF QLe(red_ratio, Q(30, 100))
    THEN Dec(B, QMin(QAdd(avg_conf, QI(5)), QI(92)), best.name, TRUE)
  ELSE IF QGe(best.conf, QI(75))
    THEN Dec(best.color, QMin(QAdd(avg_conf, QI(5)), QI(92)), best.name, TRUE)
  ELSE Dec("skip", QI(0), "consenso_baixo", FALSE)

\* the vote with the lenient combiner's answer to an empty tally
FinalVoteDefault(sigs) ==
  LET red == Votes("final", sigs, R)
      black == Votes("final", sigs, B)
      confidences == Confs(Surviving("final", sigs))
      best == BestOf("final", sigs)
      total == QAdd(red, black)
  IN
  IF total = QI(0) THEN Dec(R, QI(50), "default", TRUE)
  ELSE
  LET red_ratio == QDiv(red, total)
      avg_conf == IF confidences # <<>> THEN QMean(confidences) ELSE QI(60)
  IN
  IF QGe(red_ratio, Q(70, 100))
    THEN Dec(R, QMin(QAdd(avg_conf, QI(5)), QI(92)), best.name, TRUE)
  ELSE IF QLe(red_ratio, Q(30, 100))
    THEN Dec(B, QMin(QAdd(avg_conf, QI(5)), QI(92)), best.name, TRUE)
  ELSE IF QGe(best.conf, QI(75))
    THEN Dec(best.color, best.conf, best.name, TRUE)
  ELSE Dec("skip", QI(0), "consenso_baixo", FALSE)

\* the part of final_combined_strategy after the votes are collected
FinalVote(sigs) ==
  LET red == Votes("final", sigs, R)
      black == Votes("final", sigs, B)
      confidences == Confs(Surviving("final", sigs))
      best == BestOf("final", sigs)
      total == QAdd(red, black)
  IN
  IF total = QI(0) THEN Dec("skip", QI(0), "sem_sinal", FALSE)
  ELSE
  LET red_ratio == QDiv(red, total)
      avg_conf == IF confidences # <<>> THEN QMean(confidences) ELSE QI(60)
  IN
  IF QGe(red_ratio, Q(70, 100))
    THEN Dec(R, QMin(QAdd(avg_conf, QI(5)), QI(92)), best.name, TRUE)
  ELSE IF QLe(red_ratio, Q(30, 100))
    THEN Dec(B, QMin(QAdd(avg_conf, QI(5)), QI(92)), best.name, TRUE)
  ELSE IF QGe(best.conf, QI(75))
    THEN Dec(best.color, best.conf, best.name, TRUE)
  ELSE Dec("skip", QI(0), "consenso_baixo", FALSE)

\* the vote taken whatever the filter says
final_unfiltered(history) == FinalVote(FinalSignals(history))

final_combined_strategy(history) ==
  LET f == advanced_filter(history) IN
  IF f.skip THEN Dec("skip", QI(0), f.reason, FALSE)
  ELSE FinalVote(FinalSignals(history))

\* the vote without the test that two heuristics agree
UltraVoteLone(sigs) ==
  LET red == Votes("ultra", sigs, R)
      black == Votes("ultra", sigs, B)
      valid_strategies == Surviving("ultra", sigs)
      best == BestOf("ultra", sigs)
      total == QAdd(red, black)
  IN
  IF valid_strategies = <<>> THEN Dec("skip", QI(0), "sem_sinal_forte", FALSE)
  ELSE IF total = QI(0) THEN Dec("skip", QI(0), "sem_votos", FALSE)
  ELSE
  LET red_ratio == QDiv(red, total)
      avg_conf == QMean(Confs(valid_strategies))
  IN
  IF QGe(red_ratio, Q(75, 100))
    THEN Dec(R, QMin(QAdd(avg_conf, QI(3)), QI(95)), best.name, TRUE)
  ELSE IF QLe(red_ratio, Q(25, 100))
    THEN Dec(B, QMin(QAdd(avg_conf, QI(3)), QI(95)), best.name, TRUE)
  ELSE IF QGe(best.conf, QI(85))
    THEN Dec(best.color, best.conf, best.name, TRUE)
  ELSE Dec("skip", QI(0), "consenso_insuficiente", FALSE)

\* the part of ultra_combined after the analyses are collected
UltraVote(sigs) ==
  LET red == Votes("ultra", sigs, R)
      black == Votes("ultra", sigs, B)
      valid_strategies == Surviving("ultra", sigs)
      best == BestOf("ultra", sigs)
      total == QAdd(red, black)
  IN
  IF valid_strategies = <<>> THEN Dec("skip", QI(0), "sem_sinal_forte", FALSE)
  ELSE IF total = QI(0) THEN Dec("skip", QI(0), "sem_votos", FALSE)
  ELSE
  LET red_ratio == QDiv(red, total)
      avg_conf == QMean(Confs(valid_strategies))
      override == IF QGe(best.conf, QI(85))
                    THEN Dec(best.color, best.conf, best.name, TRUE)
                    ELSE Dec("skip", QI(0), "consenso_insuficiente", FALSE)
  IN
  IF QGe(red_ratio, Q(75, 100)) THEN
    IF Agreeing(valid_strategies, R) >= 2 \/ QGe(best.conf, QI(85))
      THEN Dec(R, QMin(QAdd(avg_conf, QI(3)), QI(95)), best.name, TRUE)
      ELSE override
  ELSE IF QLe(red_ratio, Q(25, 100)) THEN
    IF Agreeing(valid_strategies, B) >= 2 \/ QGe(best.conf, QI(85))
      THEN Dec(B, QMin(QAdd(avg_conf, QI(3)), QI(95)), best.name, TRUE)
      ELSE override
  ELSE override

ultra_combined(colors) ==
  LET f == ultra_filter(colors) IN
  IF f.skip THEN Dec("skip", QI(0), f.reason, FALSE)
  ELSE UltraVote(UltraSignals(colors))

\* confidences[c]
ConfsOf(sigs, c) == Confs(SelectSeq(sigs, LAMBDA s : s.color = c))

\* the vote without the final test on the confidence
V2VoteUnchecked(sigs, history) ==
  LET red == Votes("v2", sigs, R)
      black == Votes("v2", sigs, B)
      valid == Surviving("v2", sigs)
      best == BestOf("v2", sigs)
      total_votes == QAdd(red, black)
      Avg(c) == IF ConfsOf(valid, c) # <<>> THEN QMean(ConfsOf(valid, c)) ELSE QI(60)
      Final(c) == QMin(QAdd(Avg(c), QI(calculate_confidence_bonus(history, c))),
                       QI(92))
  IN
  IF total_votes = QI(0) THEN Dec("skip", QI(0), "sem_consenso", FALSE)
  ELSE
  LET red_ratio == QDiv(red, total_votes) IN
  IF QGe(red_ratio, Q(65, 100)) THEN Dec(R, Final(R), best.name, TRUE)
  ELSE IF QLe(red_ratio, Q(35, 100)) THEN Dec(B, Final(B), best.name, TRUE)
  ELSE IF QGe(best.conf, QI(70)) THEN Dec(best.color, best.conf, best.name, TRUE)
  ELSE Dec("skip", QI(0), "baixo_consenso", FALSE)

\* the vote with a forced entry on the leading colour where the code skips
\* for low consensus
V2VoteForced(sigs, history) ==
  LET red == Votes("v2", sigs, R)
      black == Votes("v2", sigs, B)
      valid == Surviving("v2", sigs)
      best == BestOf("v2", sigs)
      total_votes == QAdd(red, black)
      Avg(c) == IF ConfsOf(valid, c) # <<>> THEN QMean(ConfsOf(valid, c)) ELSE QI(60)
      Final(c) == QMin(QAdd(Avg(c), QI(calculate_confidence_bonus(history, c))),
                       QI(92))
      Checked(c, final_conf) ==
        IF QLt(final_conf, QI(65))
          THEN Dec("skip", QI(0), "confianca_baixa", FALSE)
          ELSE Dec(c, final_conf, best.name, TRUE)
  IN
  IF total_votes = QI(0) THEN Dec("skip", QI(0), "sem_consenso", FALSE)
  ELSE
  LET red_ratio == QDiv(red, total_votes) IN
  IF QGe(red_ratio, Q(65, 100)) THEN Checked(R, Final(R))
  ELSE IF QLe(red_ratio, Q(35, 100)) THEN Checked(B, Final(B))
  ELSE IF QGe(best.conf, QI(70)) THEN Checked(best.color, best.conf)
  ELSE Dec(IF QGe(red, black) THEN R ELSE B, QI(65), "low_confidence", TRUE)

\* the part of ultra_combined_strategy after the analyses are collected
V2Vote(sigs, history) ==
  LET red == Votes("v2", sigs, R)
      black == Votes("v2", sigs, B)
      valid == Surviving("v2", sigs)
      best == BestOf("v2", sigs)
      total_votes == QAdd(red, black)
      Avg(c) == IF ConfsOf(valid, c) # <<>> THEN QMean(ConfsOf(valid, c)) ELSE QI(60)
      Final(c) == QMin(QAdd(Avg(c), QI(calculate_confidence_bonus(history, c))),
                       QI(92))
      Checked(c, final_conf) ==
        IF QLt(final_conf, QI(65))
          THEN Dec("skip", QI(0), "confianca_baixa", FALSE)
          ELSE Dec(c, final_conf, best.name, TRUE)
  IN
  IF total_votes = QI(0) THEN Dec("skip", QI(0), "sem_consenso", FALSE)
  ELSE
  LET red_ratio == QDiv(red, total_votes) IN
  IF QGe(red_ratio, Q(65, 100)) THEN Checked(R, Final(R))
  ELSE IF QLe(red_ratio, Q(35, 100)) THEN Checked(B, Final(B))
  ELSE IF QGe(best.conf, QI(70)) THEN Checked(best.color, best.conf)
  ELSE Dec("skip", QI(0), "baixo_consenso", FALSE)

Raises(sigs) == \E i \in DOMAIN sigs : sigs[i].color = "ZeroDivisionError"

RaiseDec == Dec("ZeroDivisionError", QI(0), "raise", FALSE)

ultra_combined_strategy(history) ==
  LET f == should_skip_entry(history) IN
  IF f.skip THEN Dec("skip", QI(0), f.reason, FALSE)
  ELSE IF Raises(V2Signals(history)) THEN RaiseDec
  ELSE V2Vote(V2Signals(history), history)

\* the part of combined_strategy_v2 after the votes are collected; the
\* lenient combiner returns (colour, confidence, label) and the driver
\* compares the confidence with min_confidence
LenientVote(sigs) ==
  LET red == Votes("lenient", sigs, R)
      black == Votes("lenient", sigs, B)
      best == BestOf("lenient", sigs)
      total_votes == QAdd(red, black)
  IN
  IF total_votes = QI(0) THEN Dec(R, QI(50), "default", TRUE)
  ELSE
  LET red_pct == QDiv(red, total_votes) IN
  IF QGe(red_pct, Q(60, 100))
    THEN Dec(R, QMin(QAdd(QI(50), QMul(QSub(red_pct, Q(1, 2)), QI(80))), QI(92)),
             best.name, TRUE)
  ELSE IF QLe(red_pct, Q(40, 100))
    THEN Dec(B, QMin(QAdd(QI(50), QMul(QSub(Q(1, 2), red_pct), QI(80))), QI(92)),
             best.name, TRUE)
  ELSE IF QGe(best.conf, QI(65)) THEN Dec(best.color, best.conf, best.name, TRUE)
  ELSE Dec(IF QGe(red, black) THEN R ELSE B, QI(55), "low_confidence", TRUE)

\* the combiner that takes the vote whatever strategy_anti_padrao says
combined_strategy_v2_voting(history) ==
  IF Len(history) < 10 THEN Dec(R, QI(50), "default", TRUE)
  ELSE LenientVote(LenientSignals(history))

combined_strategy_v2(history) ==
  IF Len(history) < 10 THEN Dec(R, QI(50), "default", TRUE)
  ELSE IF strategy_anti_padrao(history).color = "skip"
    THEN Dec(strategy_equilibrio_forcado(history, 30).color, QI(55),
             "equilibrio_conservador", TRUE)
  ELSE LenientVote(LenientSignals(history))

\* ------------------------------------------------------------------------
\* The simulation drivers: simulate_with_martingale (lenient),
\* simulate_ultra_optimized (v2), simulate_final, simulate_premium and
\* simulate_ultra
\* ------------------------------------------------------------------------
Variants == {"lenient", "v2", "final", "premium", "ultra"}
Strict == {"v2", "final", "premium", "ultra"}

\* bounds of the model
MaxGames == 2
MaxMg == 2
MaxGrow == 2

VARIABLES
  variant,          \* which module is running
  history,          \* the history list
  n_games,          \* parameter n_games
  max_mg,           \* parameter max_mg (fixed at 2 in premium and ultra)
  min_confidence,   \* parameter min_confidence (lenient driver only)
  i,                \* decision points processed so far
  pc,               \* position in the driver
  decision,         \* what the combiner returned at this decision point
  mg,               \* loop variable of the martingale loop
  won,              \* local variable won
  stats,            \* the stats / results dict
  db,               \* server.py: the collections of the database
  blaze_state,      \* server.py: the global blaze_state
  tasks,            \* server.py: the coroutines of the event loop
  sent,             \* server.py: the responses and broadcasts sent
  now,              \* server.py: the clock, in minutes
  scraper           \* blaze_scraper.py: the BlazeScraper object

driverVars == <<variant, history, n_games, max_mg, min_confidence, i, pc,
                decision, mg, won, stats>>

serverVars == <<db, blaze_state, tasks, sent, now>>

vars == <<driverVars, serverVars, scraper>>

\* no simulation driver is running
DriverOff ==
  /\ variant = "none"
  /\ history = <<>>
  /\ n_games = 0
  /\ max_mg = 0
  /\ min_confidence = 0
  /\ i = 0
  /\ pc = "off"
  /\ decision = <<>>
  /\ mg = 0
  /\ won = FALSE
  /\ stats = <<>>

\* the server and the scraper are not running
ServerOff ==
  /\ db = <<>>
  /\ blaze_state = <<>>
  /\ tasks = <<>>
  /\ sent = <<>>
  /\ now = 0

ScraperOff == scraper = <<>>

\* the decision of the variant's combiner on a history; the lenient
\* combiner returns no enter flag: its driver enters unless
\* confidence < min_confidence
Combiner(v, h, minc) ==
  CASE v = "final" -> final_combined_strategy(h)
    [] v = "ultra" -> ultra_combined(h)
    [] v = "premium" -> premium_strategy(h)
    [] v = "v2" -> ultra_combined_strategy(h)
    [] v = "lenient" ->
         LET d == combined_strategy_v2(h) IN
         [d EXCEPT !.enter = ~QLt(d.conf, QI(minc))]

\* number of per-level win counters the variant's stats hold
Slots(v) ==
  CASE v = "final" -> 5 [] v = "v2" -> 4 [] OTHER -> 3

\* the counter a win at level mg increments: win_levels[mg] in final (an
\* IndexError past the list, slot 0 here), the last counter for every
\* deeper level in the other variants
Slot(v, level) ==
  IF v = "final" THEN (IF level + 1 <= 5 THEN level + 1 ELSE 0)
  ELSE Min(level, Slots(v) - 1) + 1

\* stats[...][k] = 1 in place of += 1
IncOnce(f, k) ==
  [x \in DOMAIN f \cup {k} |-> IF x = k THEN 1 ELSE f[x]]

\* defaultdict(int)[k] += 1
Inc(f, k) ==
  IF k \in DOMAIN f THEN [f EXCEPT ![k] = @ + 1]
  ELSE [x \in DOMAIN f \cup {k} |-> IF x = k THEN 1 ELSE f[x]]

\* stats['patterns'][k][field] += 1
IncPattern(f, k, field) ==
  LET old == IF k \in DOMAIN f THEN f[k] ELSE [wins |-> 0, losses |-> 0] IN
  [x \in DOMAIN f \cup {k} |->
     IF x = k THEN [old EXCEPT ![field] = @ + 1] ELSE f[x]]

EmptyDict == [x \in {} |-> 0]

\* a key the dict does not hold
Unset == <<>>

InitStats(v) ==
  [entries |-> 0, wins |-> 0, losses |-> 0, skipped |-> 0,
   win_levels |-> [k \in 1..Slots(v) |-> 0],
   strategies |-> EmptyDict, skip_reasons |-> EmptyDict,
   patterns |-> EmptyDict, confidence_levels |-> <<>>,
   win_rate |-> Unset, principal_rate |-> Unset,
   entry_rate |-> Unset]

\* the outcome of one generate_result() call: the draws are the model's input
Draws == Colors

\* a history kept as a window of constant length
RecordWindow(h, actual) == Append(Tail(h), actual)

\* history.append(actual)
Record(h, actual) == Append(h, actual)

\* the filter gate of a strict variant
Filter(v, h) ==
  CASE v = "final" -> advanced_filter(h)
    [] v = "ultra" -> ultra_filter(h)
    [] v = "premium" -> premium_filter(h)
    [] v = "v2" -> should_skip_entry(h)

\* if actual == color
Hit(actual, color) == actual = color

\* a ladder one level short: for mg in range(max_mg), at least one draw
ExhaustedEarly(level, maxLevel) == level + 1 >= maxLevel

\* the martingale loop ends without a win after range(max_mg + 1)
Exhausted(level, maxLevel) == level = maxLevel

\* color, conf, strategy, should_enter = combiner(history), then the
\* bookkeeping up to the first generate_result()
Decide ==
  /\ pc = "loop"
  /\ i < n_games
  /\ LET d == Combiner(variant, history, min_confidence) IN
     /\ decision' = d
     /\ IF d.color = "ZeroDivisionError"
          THEN /\ pc' = "error"
               /\ UNCHANGED <<stats, mg, won>>
        ELSE IF ~d.enter
          THEN /\ pc' = "skip"
               /\ UNCHANGED <<stats, mg, won>>
        ELSE /\ pc' = "play"
             /\ mg' = 0
             /\ won' = FALSE
             /\ stats' =
                  [stats EXCEPT
                     !.entries = @ + 1,
                     !.strategies =
                        IF variant = "premium" THEN @ ELSE Inc(@, d.label),
                     !.confidence_levels =
                        IF variant = "lenient" THEN Append(@, d.conf) ELSE @]
  /\ UNCHANGED <<variant, history, n_games, max_mg, min_confidence, i>>
  /\ UNCHANGED <<serverVars, scraper>>

\* the branch "if not should_enter": one draw, appended, counted as a skip
SkipDraw ==
  /\ pc = "skip"
  /\ \E actual \in Draws :
       history' = Record(history, actual)
  /\ stats' =
       [stats EXCEPT
          !.skipped = @ + 1,
          !.skip_reasons =
             IF variant \in {"v2", "final", "ultra"}
               THEN Inc(@, decision.label) ELSE @]
  /\ i' = i + 1
  /\ pc' = "loop"
  /\ UNCHANGED <<variant, n_games, max_mg, min_confidence, decision, mg, won>>
  /\ UNCHANGED <<serverVars, scraper>>

\* one iteration of "for mg in range(max_mg + 1)" and, when it is the
\* last one, the recording of the win or the loss
PlayDraw ==
  /\ pc = "play"
  /\ \E actual \in Draws :
       /\ history' = Record(history, actual)
       /\ IF Hit(actual, decision.color) THEN
            /\ won' = TRUE
            /\ mg' = mg
            /\ stats' =
                 [stats EXCEPT
                    !.wins = @ + 1,
                    !.win_levels =
                       IF Slot(variant, mg) = 0 THEN @
                       ELSE [@ EXCEPT ![Slot(variant, mg)] = @ + 1],
                    !.patterns =
                       IF variant = "premium"
                         THEN IncPattern(@, decision.label, "wins") ELSE @]
            /\ pc' = IF Slot(variant, mg) = 0 THEN "error" ELSE "loop"
            /\ i' = IF Slot(variant, mg) = 0 THEN i ELSE i + 1
          ELSE IF Exhausted(mg, max_mg) THEN
            /\ won' = FALSE
            /\ mg' = mg
            /\ stats' =
                 [stats EXCEPT
                    !.losses = @ + 1,
                    !.patterns =
                       IF variant = "premium"
                         THEN IncPattern(@, decision.label, "losses") ELSE @]
            /\ pc' = "loop"
            /\ i' = i + 1
          ELSE
            /\ mg' = mg + 1
            /\ UNCHANGED <<won, stats, pc, i>>
  /\ UNCHANGED <<variant, n_games, max_mg, min_confidence, decision>>
  /\ UNCHANGED <<serverVars, scraper>>

\* the metrics computed after the loop (avg_confidence, the mean of
\* confidence_levels that the lenient driver also reports, is left out: its
\* exact value does not fit the integers of the model)
Finish ==
  /\ pc = "loop"
  /\ i = n_games
  /\ pc' = "done"
  /\ stats' =
       IF stats.entries > 0 THEN
         [stats EXCEPT
            !.win_rate = QMul(Q(stats.wins, stats.entries), QI(100)),
            !.principal_rate =
               IF variant \in {"lenient", "v2"}
                 THEN QMul(Q(stats.win_levels[1], stats.entries), QI(100))
                 ELSE @,
            !.entry_rate =
               IF variant = "ultra"
                 THEN QMul(Q(stats.entries, stats.entries + stats.skipped), QI(100))
                 ELSE @]
       ELSE IF variant = "v2" THEN stats
       ELSE
         [stats EXCEPT
            !.win_rate = QI(0),
            !.principal_rate = IF variant = "lenient" THEN QI(0) ELSE @,
            !.entry_rate = IF variant = "ultra" THEN QI(0) ELSE @]
  /\ UNCHANGED <<variant, history, n_games, max_mg, min_confidence, i,
                 decision, mg, won>>
  /\ UNCHANGED <<serverVars, scraper>>

\* ------------------------------------------------------------------------
\* Initial histories.  generate_history(n) may return any sequence of n
\* outcomes; the model starts from the sequences described below: a
\* periodic filler followed by runs and alternations.
\* ------------------------------------------------------------------------
PadBlock(kind) ==
  CASE kind = "bal" -> <<R, R, B, R, B, B>>
    [] kind = "redheavy" -> <<R, R, R, B>>
    [] kind = "blackheavy" -> <<B, B, R, B>>

Pad(kind, n) ==
  [k \in 1..n |-> PadBlock(kind)[((k - 1) % Len(PadBlock(kind))) + 1]]

\* <<"run", c, k>>: k times c;  <<"alt", c, k>>: c, Opposite(c), c, ... (k long)
Block(b) ==
  IF b[1] = "run" THEN [k \in 1..b[3] |-> b[2]]
  ELSE [k \in 1..b[3] |-> IF k % 2 = 1 THEN b[2] ELSE Opposite(b[2])]

RECURSIVE Blocks(_)
Blocks(bs) == IF bs = <<>> THEN <<>> ELSE Block(Head(bs)) \o Blocks(Tail(bs))

Scenarios == {
    [pad |-> "redheavy", blocks |-> << <<"run", R, 6>>, <<"run", B, 2>> >>],
    [pad |-> "blackheavy", blocks |-> << <<"run", B, 4>>, <<"run", R, 5>> >>],
    [pad |-> "bal", blocks |-> << <<"run", B, 12>>, <<"run", R, 3>>, <<"run", W, 1>>, <<"run", B, 9>> >>],
    [pad |-> "bal", blocks |-> << <<"run", R, 7>>, <<"run", B, 5>>, <<"run", R, 9>>, <<"alt", B, 12>>, <<"run", B, 1>>, <<"run", R, 4>> >>],
    [pad |-> "blackheavy", blocks |-> << <<"run", B, 4>>, <<"run", R, 2>>, <<"run", B, 2>>, <<"run", R, 2>> >>],
    [pad |-> "blackheavy", blocks |-> << <<"run", R, 2>>, <<"run", B, 7>>, <<"run", R, 7>>, <<"run", B, 7>>, <<"run", R, 4>>, <<"run", B, 4>> >>],
    [pad |-> "bal", blocks |-> << <<"run", R, 12>>, <<"run", W, 2>>, <<"run", B, 6>>, <<"run", R, 12>> >>],
    [pad |-> "blackheavy", blocks |-> << <<"run", B, 9>>, <<"run", R, 1>>, <<"run", B, 5>> >>],
    [pad |-> "blackheavy", blocks |-> << <<"run", W, 2>>, <<"run", R, 1>>, <<"run", B, 5>>, <<"run", R, 3>>, <<"run", B, 3>> >>],
    [pad |-> "blackheavy", blocks |-> << <<"run", B, 5>>, <<"alt", R, 10>> >>],
    [pad |-> "blackheavy", blocks |-> << <<"run", R, 12>>, <<"run", W, 1>>, <<"run", B, 2>> >>],
    [pad |-> "bal", blocks |-> << <<"run", B, 6>>, <<"alt", R, 9>>, <<"run", R, 4>>, <<"run", B, 3>>, <<"run", R, 3>> >>],
    [pad |-> "blackheavy", blocks |-> << <<"run", R, 5>>, <<"run", B, 4>> >>],
    [pad |-> "redheavy", blocks |-> << <<"run", R, 12>>, <<"run", B, 1>>, <<"run", R, 5>> >>],
    [pad |-> "blackheavy", blocks |-> << <<"run", B, 4>>, <<"run", R, 1>>, <<"run", B, 6>> >>],
    [pad |-> "bal", blocks |-> << <<"run", B, 4>>, <<"run", R, 2>>, <<"run", B, 2>> >>],
    [pad |-> "redheavy", blocks |-> << <<"run", B, 4>>, <<"run", R, 5>> >>],
    [pad |-> "redheavy", blocks |-> << <<"alt", B, 9>>, <<"run", B, 7>> >>],
    [pad |-> "redheavy", blocks |-> << <<"run", R, 9>>, <<"run", B, 12>>, <<"run", R, 4>> >>],
    [pad |-> "redheavy", blocks |-> << <<"run", B, 9>>, <<"run", R, 6>> >>],
    [pad |-> "bal", blocks |-> << <<"run", R, 1>>, <<"alt", B, 8>> >>],
    [pad |-> "bal", blocks |-> << <<"run", B, 12>>, <<"run", R, 7>> >>],
    [pad |-> "blackheavy", blocks |-> << <<"alt", R, 15>>, <<"run", R, 7>> >>],
    [pad |-> "redheavy", blocks |-> << <<"run", R, 7>>, <<"run", B, 9>>, <<"run", R, 1>>, <<"run", B, 12>>, <<"run", R, 1>>, <<"run", B, 7>> >>],
    [pad |-> "blackheavy", blocks |-> << <<"run", R, 2>>, <<"run", B, 5>> >>],
    [pad |-> "bal", blocks |-> << <<"run", B, 7>>, <<"run", R, 3>> >>],
    [pad |-> "blackheavy", blocks |-> << <<"run", B, 2>>, <<"alt", R, 12>> >>],
    [pad |-> "redheavy", blocks |-> << <<"alt", B, 10>>, <<"run", B, 6>> >>],
    [pad |-> "bal", blocks |-> << <<"run", R, 9>>, <<"run", B, 4>> >>],
    [pad |-> "redheavy", blocks |-> << <<"alt", R, 9>>, <<"run", W, 2>>, <<"run", R, 12>> >>],
    [pad |-> "blackheavy", blocks |-> << <<"run", R, 2>>, <<"alt", B, 15>>, <<"run", W, 2>>, <<"run", B, 12>> >>],
    [pad |-> "bal", blocks |-> << <<"run", W, 1>>, <<"run", R, 12>>, <<"run", B, 1>>, <<"run", R, 12>> >>],
    [pad |-> "bal", blocks |-> << <<"run", W, 30>> >>]
  }

\* generate_history(100), generate_history(50) in backtest.py
HistLen(v) == IF v = "lenient" THEN 50 ELSE 100

ScenarioHistory(sc, n) == LastN(Pad(sc.pad, 100) \o Blocks(sc.blocks), n)

MinConfidences == {55, 65}

NoDecision == Dec("skip", QI(0), "none", FALSE)

Init ==
  /\ variant \in Variants
  /\ \E sc \in Scenarios : history = ScenarioHistory(sc, HistLen(variant))
  /\ n_games \in 0..MaxGames
  /\ max_mg \in (IF variant \in {"premium", "ultra"} THEN {2} ELSE 0..MaxMg)
  /\ min_confidence \in (IF variant = "lenient" THEN MinConfidences ELSE {0})
  /\ i = 0
  /\ pc = "loop"
  /\ decision = NoDecision
  /\ mg = 0
  /\ won = FALSE
  /\ stats = InitStats(variant)
  /\ ServerOff
  /\ ScraperOff

Next == Decide \/ SkipDraw \/ PlayDraw \/ Finish

Spec == Init /\ [][Next]_vars

\* ------------------------------------------------------------------------
\* The combiners as functions of an arbitrary history: a caller applies the
\* variant's combiner to a history of any length and extends the history.
\* ------------------------------------------------------------------------
FnLengths == {4, 8, 10, 13, 18, 23, 28, 38, 48, 98}

FnInit ==
  /\ variant \in Variants
  /\ \E sc \in Scenarios, n \in FnLengths : history = ScenarioHistory(sc, n)
  /\ n_games = 0
  /\ max_mg = 2
  /\ min_confidence = (IF variant = "lenient" THEN 65 ELSE 0)
  /\ i = 0
  /\ pc = "call"
  /\ decision = NoDecision
  /\ mg = 0
  /\ won = FALSE
  /\ stats = InitStats(variant)
  /\ ServerOff
  /\ ScraperOff

\* decision = combiner(history)
Call ==
  /\ pc = "call"
  /\ decision' = Combiner(variant, history, min_confidence)
  /\ pc' = "ret"
  /\ UNCHANGED <<variant, history, n_games, max_mg, min_confidence, i, mg,
                 won, stats>>
  /\ UNCHANGED <<serverVars, scraper>>

\* the caller appends one more outcome and calls again
Grow ==
  /\ pc = "ret"
  /\ i < MaxGrow
  /\ \E c \in Colors : history' = Append(history, c)
  /\ i' = i + 1
  /\ pc' = "call"
  /\ UNCHANGED <<variant, n_games, max_mg, min_confidence, decision, mg, won,
                 stats>>
  /\ UNCHANGED <<serverVars, scraper>>

FnNext == Call \/ Grow

FnSpec == FnInit /\ [][FnNext]_vars

\* ------------------------------------------------------------------------
\* The drivers that take max_mg as a parameter, run for one decision point
\* on ladders deeper than their per-level counters
\* ------------------------------------------------------------------------
DeepMaxMg == 5

DeepInit ==
  /\ variant \in {"lenient", "v2", "final"}
  /\ \E sc \in Scenarios : history = ScenarioHistory(sc, HistLen(variant))
  /\ n_games = 1
  /\ max_mg \in {DeepMaxMg - 2, DeepMaxMg}
  /\ min_confidence \in (IF variant = "lenient" THEN MinConfidences ELSE {0})
  /\ i = 0
  /\ pc = "loop"
  /\ decision = NoDecision
  /\ mg = 0
  /\ won = FALSE
  /\ stats = InitStats(variant)
  /\ ServerOff
  /\ ScraperOff

DeepSpec == DeepInit /\ [][Next]_vars

\* ------------------------------------------------------------------------
\* blaze_scraper.py: BlazeScraper.run polls the results page and posts the
\* newest result to the backend when it is new
\* ------------------------------------------------------------------------
MaxPolls == 3

\* the entries fetch_results() can read off the page: colour from the CSS
\* class, roll, time text
Rodadas ==
  {[color |-> "red", roll |-> 3, time |-> "10:00"],
   [color |-> "red", roll |-> 3, time |-> "10:01"],
   [color |-> "black", roll |-> 9, time |-> "10:01"],
   [color |-> "white", roll |-> 0, time |-> ""]}

\* what fetch_results() returns: the entries of the page, newest first ([]
\* on any error), each stamped with the time of the fetch
Pages == {<<>>} \cup {<<a>> : a \in Rodadas} \cup (Rodadas \X Rodadas)

Stamp(page, t) ==
  [k \in DOMAIN page |->
     [color |-> page[k].color, roll |-> page[k].roll, time |-> page[k].time,
      timestamp |-> t]]

\* is_new computed from the roll alone
IsNewByRoll(last_results, latest) ==
  \/ last_results = <<>>
  \/ last_results[1].roll # latest.roll

\* is_new: there is no batch sent yet, or the newest result differs from
\* the newest of the last batch sent in roll or in time
IsNew(last_results, latest) ==
  \/ last_results = <<>>
  \/ ~(last_results[1].roll = latest.roll /\ last_results[1].time = latest.time)

ScraperInit ==
  /\ scraper = [running |-> TRUE, last_results |-> <<>>, results |-> <<>>,
                is_new |-> FALSE, posted |-> <<>>, polls |-> 0]
  /\ DriverOff
  /\ ServerOff

\* one iteration of the loop of run(): fetch, compare, send_to_backend
\* (which posts the result and swallows every failure), remember the batch
Poll ==
  /\ scraper.running
  /\ scraper.polls < MaxPolls
  /\ \E page \in Pages :
       LET results == Stamp(page, scraper.polls + 1)
           fresh == results # <<>> /\ IsNew(scraper.last_results, results[1])
       IN scraper' =
            [scraper EXCEPT
               !.results = results,
               !.is_new = fresh,
               !.posted = IF fresh THEN Append(@, results[1]) ELSE @,
               !.last_results = IF fresh THEN results ELSE @,
               !.polls = @ + 1]
  /\ UNCHANGED <<driverVars, serverVars>>

\* stop()
Stop ==
  /\ scraper.running
  /\ scraper' = [scraper EXCEPT !.running = FALSE]
  /\ UNCHANGED <<driverVars, serverVars>>

ScraperNext == Poll \/ Stop

ScraperSpec == ScraperInit /\ [][ScraperNext]_vars

\* ------------------------------------------------------------------------
\* server.py: the adaptive strategy state of a user
\* ------------------------------------------------------------------------

\* the keys of STRATEGIES, in the order of the dict
StrategyNames ==
  <<"tendencia", "reversao", "alternancia", "fibonacci", "estatistica",
    "ia_profunda">>

STRATEGIES == {StrategyNames[k] : k \in DOMAIN StrategyNames}

\* STRATEGIES[name]["weight"]
StrategyWeight(name) == IF name = "ia_profunda" THEN Q(3, 2) ELSE QI(1)

Users == {"u1", "u2"}

\* the document get_user_strategy_performance inserts for a new user
\* (user_id is the key of the collection here; last_analysis_time is never
\* read)
NewPerf ==
  [strategies |->
     [name \in STRATEGIES |->
        [wins |-> 0, losses |-> 0, streak |-> 0, last_loss_count |-> 0]],
   current_strategy |-> "ia_profunda",
   total_losses_streak |-> 0]

\* the collection after update_one / insert_one of the user's document
Put(coll, user_id, doc) ==
  [u \in DOMAIN coll \cup {user_id} |-> IF u = user_id THEN doc ELSE coll[u]]

\* the document get_user_strategy_performance returns
get_user_strategy_performance(coll, user_id) ==
  IF user_id \in DOMAIN coll THEN coll[user_id] ELSE NewPerf

Max(a, b) == IF a >= b THEN a ELSE b

\* the streak counted up and down without max(0, .) and min(0, .)
UpdatedUnclamped(perf, strategy, w) ==
  IF strategy \notin DOMAIN perf.strategies THEN perf
  ELSE IF w THEN
    [perf EXCEPT
       !.strategies[strategy].wins = @ + 1,
       !.strategies[strategy].streak = @ + 1,
       !.total_losses_streak = 0]
  ELSE
    [perf EXCEPT
       !.strategies[strategy].losses = @ + 1,
       !.strategies[strategy].streak = @ - 1,
       !.strategies[strategy].last_loss_count = @ + 1,
       !.total_losses_streak = @ + 1]

\* perf as update_strategy_performance changes it before writing it back
Updated(perf, strategy, w) ==
  IF strategy \notin DOMAIN perf.strategies THEN perf
  ELSE IF w THEN
    [perf EXCEPT
       !.strategies[strategy].wins = @ + 1,
       !.strategies[strategy].streak = Max(0, @) + 1,
       !.total_losses_streak = 0]
  ELSE
    [perf EXCEPT
       !.strategies[strategy].losses = @ + 1,
       !.strategies[strategy].streak = Min(0, @) - 1,
       !.strategies[strategy].last_loss_count = @ + 1,
       !.total_losses_streak = @ + 1]

\* scores[name]
Score(perf, name) ==
  LET data == perf.strategies[name]
      total == data.wins + data.losses
  IN IF total > 0
       THEN QSub(QMul(Q(data.wins, total), StrategyWeight(name)),
                 Q(data.last_loss_count, 10))
       ELSE QMul(Q(1, 2), StrategyWeight(name))

\* the condition under which select_best_strategy re-analyses
Reanalyse(perf, had_recent_loss) ==
  had_recent_loss \/ perf.total_losses_streak >= 2

\* the first strategy of the current one itself, in place of the others
FirstOtherIsCurrent(perf) == perf.current_strategy

\* the first strategy of sorted(scores.items(), reverse=True) (a stable
\* sort: equal scores keep the order of the dict) that is not the current
\* one
FirstOther(perf) ==
  LET others == {k \in DOMAIN StrategyNames :
                   StrategyNames[k] # perf.current_strategy}
      best == CHOOSE k \in others :
                \A j \in others :
                   \/ QLt(Score(perf, StrategyNames[j]),
                          Score(perf, StrategyNames[k]))
                   \/ /\ Score(perf, StrategyNames[j]) =
                           Score(perf, StrategyNames[k])
                      /\ k <= j
  IN StrategyNames[best]

\* perf as select_best_strategy changes it when it re-analyses
Reselected(perf) ==
  [perf EXCEPT
     !.strategies[perf.current_strategy].last_loss_count = 0,
     !.current_strategy = FirstOther(perf)]

\* what select_best_strategy returns
select_best_strategy(perf, had_recent_loss) ==
  IF Reanalyse(perf, had_recent_loss)
    THEN FirstOther(perf) ELSE perf.current_strategy

\* calls of the two functions, one after the other
MaxCalls == 3

\* the strategy names results are reported for: pred.get('strategy_used');
\* "none" is the name of a prediction made without history
ReportedNames == {"tendencia", "reversao", "ia_profunda", "none"}

PerfInit ==
  /\ db = [game_results |-> <<>>, predictions |-> <<>>,
           strategy_performance |-> [u \in {} |-> NewPerf]]
  /\ blaze_state = <<>>
  /\ tasks = <<>>
  /\ sent = <<>>
  /\ now = 0
  /\ DriverOff
  /\ ScraperOff

\* await update_strategy_performance(user_id, strategy, won)
ReportResult ==
  /\ Len(sent) < MaxCalls
  /\ \E user_id \in Users, strategy \in ReportedNames, w \in BOOLEAN :
       LET perf == get_user_strategy_performance(db.strategy_performance,
                                                 user_id)
       IN /\ db' = [db EXCEPT !.strategy_performance =
                      Put(@, user_id, Updated(perf, strategy, w))]
          /\ sent' = Append(sent, [op |-> "update", user_id |-> user_id,
                                   strategy |-> strategy, won |-> w,
                                   returned |-> "perf"])
  /\ UNCHANGED <<blaze_state, tasks, now, driverVars, scraper>>

\* await select_best_strategy(user_id, history, had_recent_loss)
SelectStrategy ==
  /\ Len(sent) < MaxCalls
  /\ \E user_id \in Users, had_recent_loss \in BOOLEAN :
       LET perf == get_user_strategy_performance(db.strategy_performance,
                                                 user_id)
       IN /\ db' = [db EXCEPT !.strategy_performance =
                      Put(@, user_id,
                          IF Reanalyse(perf, had_recent_loss)
                            THEN Reselected(perf) ELSE perf)]
          /\ sent' = Append(sent, [op |-> "select", user_id |-> user_id,
                                   strategy |-> perf.current_strategy,
                                   won |-> had_recent_loss,
                                   returned |->
                                     select_best_strategy(perf, had_recent_loss)])
  /\ UNCHANGED <<blaze_state, tasks, now, driverVars, scraper>>

PerfNext == ReportResult \/ SelectStrategy

PerfSpec == PerfInit /\ [][PerfNext]_vars

\* ------------------------------------------------------------------------
\* server.py: the live feed (connect_to_blaze) and the fallback simulator
\* (run_simulator), two tasks of one event loop
\* ------------------------------------------------------------------------

\* blaze_state["history"] keeps the newest HistoryCap results
HistoryCap == 100

\* events (messages received, simulator ticks) after the initial state,
\* connection attempts
MaxEvents == 3
MaxAttempts == 2

\* rounds already completed in the initial state of a server that has been
\* listening for a while
RoundsBefore == {0, HistoryCap - 1}

parse_blaze_color(roll) ==
  IF roll = 0 THEN "white" ELSE IF roll \in 1..7 THEN "red" ELSE "black"

\* the document stored in db.game_results; source is "blaze_live" for the
\* live feed, "simulator" stands for simulated = True and "manual" for
\* added_by = the user; roll is -1 where the document has none
ResultDoc(color, roll, source, t) ==
  [color |-> color, roll |-> roll, source |-> source, timestamp |-> t]

\* the entry inserted into blaze_state["history"]
HistoryEntry(color, roll, t) ==
  [color |-> color, roll |-> roll, timestamp |-> t]

\* the roll of the k-th round of the initial state
RollBefore(k) == (k * 4) % 15

\* the messages of the feed: double.tick with a status and a roll (-1 for
\* no roll), and every other message ("0", "40", "2", undecodable ones)
Ticks ==
  {[status |-> "complete", roll |-> 0], [status |-> "complete", roll |-> 3],
   [status |-> "complete", roll |-> 9], [status |-> "complete", roll |-> -1],
   [status |-> "rolling", roll |-> -1], [status |-> "none", roll |-> -1]}

\* the ways the connection of a listening task ends: ConnectionClosed is
\* raised, another exception is raised, or the iteration over the messages
\* ends without an exception (the peer closed with code 1000 or 1001)
Endings == {"ConnectionClosed", "Exception", "end of iteration"}

\* the outcome of random.random() in run_simulator
SimulatedColors == {"red", "black", "white"}

\* history.insert(0, entry) without the cut to the newest 100
KeepAll(entry, h) == <<entry>> \o h

\* history.insert(0, entry); history = history[:100]
Keep(entry, h) == SubSeq(<<entry>> \o h, 1, Min(Len(h) + 1, HistoryCap))

LiveInit ==
  /\ \E n \in RoundsBefore :
       /\ db = [game_results |->
                  [k \in 1..n |->
                     ResultDoc(parse_blaze_color(RollBefore(k)), RollBefore(k),
                               "blaze_live", k)],
                predictions |-> <<>>,
                strategy_performance |-> [u \in {} |-> NewPerf]]
       /\ blaze_state =
            [connected |-> n > 0,
             status |-> IF n > 0 THEN "connected" ELSE "disconnected",
             history |->
               [k \in 1..n |->
                  HistoryEntry(parse_blaze_color(RollBefore(n + 1 - k)),
                               RollBefore(n + 1 - k), n + 1 - k)],
             last_color |-> IF n > 0 THEN parse_blaze_color(RollBefore(n))
                            ELSE "None",
             last_roll |-> IF n > 0 THEN RollBefore(n) ELSE -1,
             connection_attempts |-> IF n > 0 THEN 1 ELSE 0]
       /\ tasks = [connect_to_blaze |-> IF n > 0 THEN "listen" ELSE "connect",
                   events |-> 0]
       /\ now = n
  /\ sent = <<>>
  /\ DriverOff
  /\ ScraperOff

\* the top of the loop of connect_to_blaze, up to websockets.connect
StartConnect ==
  /\ tasks.connect_to_blaze = "connect"
  /\ blaze_state.connection_attempts < MaxAttempts
  /\ blaze_state' = [blaze_state EXCEPT !.connection_attempts = @ + 1,
                                        !.status = "connecting"]
  /\ tasks' = [tasks EXCEPT !.connect_to_blaze = "connecting"]
  /\ UNCHANGED <<db, sent, now, driverVars, scraper>>

\* websockets.connect succeeds, or raises
FinishConnect ==
  /\ tasks.connect_to_blaze = "connecting"
  /\ \E ok \in BOOLEAN, raised \in Endings \ {"end of iteration"} :
       IF ok
         THEN /\ blaze_state' = [blaze_state EXCEPT !.connected = TRUE,
                                                    !.status = "connected"]
              /\ tasks' = [tasks EXCEPT !.connect_to_blaze = "listen"]
         ELSE /\ blaze_state' =
                   [blaze_state EXCEPT
                      !.connected = FALSE,
                      !.status = IF raised = "ConnectionClosed"
                                   THEN "disconnected" ELSE "error"]
              /\ tasks' = [tasks EXCEPT !.connect_to_blaze = "wait"]
  /\ UNCHANGED <<db, sent, now, driverVars, scraper>>

\* one message of "async for message in ws"
Receive ==
  /\ tasks.connect_to_blaze = "listen"
  /\ tasks.events < MaxEvents
  /\ \E tick \in Ticks :
       LET color == parse_blaze_color(tick.roll)
           done == tick.status = "complete" /\ tick.roll # -1
           t == now + 1
       IN /\ blaze_state' =
               IF done
                 THEN [blaze_state EXCEPT
                         !.last_color = color,
                         !.last_roll = tick.roll,
                         !.history = Keep(HistoryEntry(color, tick.roll, t), @)]
                 ELSE blaze_state
          /\ db' = IF done
                     THEN [db EXCEPT !.game_results =
                             Append(@, ResultDoc(color, tick.roll,
                                                 "blaze_live", t))]
                     ELSE db
          /\ sent' = sent
                \o (IF done
                      THEN <<[type |-> "new_result", color |-> color,
                              simulated |-> FALSE]>>
                      ELSE <<>>)
                \o (IF tick.status # "none"
                      THEN <<[type |-> "game_status", color |-> tick.status,
                              simulated |-> FALSE]>>
                      ELSE <<>>)
  /\ now' = now + 1
  /\ tasks' = [tasks EXCEPT !.events = @ + 1]
  /\ UNCHANGED <<driverVars, scraper>>

\* the connection of the listening task ends
ConnectionEnds ==
  /\ tasks.connect_to_blaze = "listen"
  /\ \E how \in Endings :
       blaze_state' =
         IF how = "ConnectionClosed"
           THEN [blaze_state EXCEPT !.connected = FALSE,
                                    !.status = "disconnected"]
         ELSE IF how = "Exception"
           THEN [blaze_state EXCEPT !.connected = FALSE, !.status = "error"]
         ELSE blaze_state
  /\ tasks' = [tasks EXCEPT !.connect_to_blaze = "wait"]
  /\ UNCHANGED <<db, sent, now, driverVars, scraper>>

\* await asyncio.sleep(wait_time) returns
Reconnect ==
  /\ tasks.connect_to_blaze = "wait"
  /\ tasks' = [tasks EXCEPT !.connect_to_blaze = "connect"]
  /\ UNCHANGED <<db, blaze_state, sent, now, driverVars, scraper>>

\* one iteration of the loop of run_simulator, after its sleep
SimulatorTick ==
  /\ tasks.events < MaxEvents
  /\ now' = now + 1
  /\ tasks' = [tasks EXCEPT !.events = @ + 1]
  /\ IF blaze_state.connected
       THEN UNCHANGED <<db, sent>>
       ELSE \E color \in SimulatedColors :
              /\ db' = [db EXCEPT !.game_results =
                          Append(@, ResultDoc(color, -1, "simulator", now + 1))]
              /\ sent' = Append(sent, [type |-> "new_result", color |-> color,
                                       simulated |-> TRUE])
  /\ UNCHANGED <<blaze_state, driverVars, scraper>>

LiveNext ==
  \/ StartConnect
  \/ FinishConnect
  \/ Receive
  \/ ConnectionEnds
  \/ Reconnect
  \/ SimulatorTick

LiveSpec == LiveInit /\ [][LiveNext]_vars

\* ------------------------------------------------------------------------
\* server.py: the analysis behind GET /api/prediction
\* ------------------------------------------------------------------------
QMax(x, y) == IF QLe(x, y) THEN y ELSE x

\* round(x, 2) of a non-negative x: the nearest hundredth
Round2(x) == Q((200 * x[1] + x[2]) \div (2 * x[2]), 100)

\* "black" if last_color == "red" else "red"
OppositeOfRed(c) == IF c = R THEN B ELSE R

analyze_with_tendencia(colors) ==
  IF Len(colors) < 10 THEN Sig(R, QI(50))
  ELSE LET last_20 == LastN(colors, 20)
           red_count == Count(last_20, R)
           black_count == Count(last_20, B)
       IN IF red_count > black_count
            THEN Sig(R, QMin(QAdd(QI(50), Q((red_count - black_count) * 5, 2)),
                             QI(85)))
            ELSE Sig(B, QMin(QAdd(QI(50), Q((black_count - red_count) * 5, 2)),
                             QI(85)))

analyze_with_reversao(colors) ==
  IF Len(colors) < 5 THEN Sig(R, QI(50))
  ELSE LET streak == RunAtEnd(colors)
           red_count == Count(LastN(colors, 10), R)
       IN IF streak >= 4
            THEN Sig(OppositeOfRed(colors[Len(colors)]),
                     QMin(QI(60 + (streak - 4) * 8), QI(90)))
          ELSE IF red_count > 5 THEN Sig(B, QI(55))
          ELSE IF red_count < 5 THEN Sig(R, QI(55))
          ELSE Sig(R, QI(50))

analyze_with_alternancia(colors) ==
  IF Len(colors) < 6 THEN Sig(R, QI(50))
  ELSE LET last_8 == LastN(colors, 8)
           alternating_count == Changes(last_8)
           last_color == colors[Len(colors)]
           pattern_22 ==
             \A k \in {1, 3, 5, 7} :
                k + 1 <= Len(last_8) => last_8[k] = last_8[k + 1]
       IN IF alternating_count >= 6
            THEN Sig(OppositeOfRed(last_color),
                     QMin(QI(70 + (alternating_count - 6) * 5), QI(88)))
          ELSE IF pattern_22 /\ Len(last_8) >= 4
            THEN (IF Len(colors) % 2 = 0
                    THEN Sig(last_color, QI(65))
                    ELSE Sig(OppositeOfRed(last_color), QI(65)))
          ELSE Sig(R, QI(50))

analyze_with_fibonacci(colors) ==
  IF Len(colors) < 21 THEN Sig(R, QI(50))
  ELSE LET fib_colors ==
             [k \in 1..7 |->
                colors[Len(colors) + 1 - <<1, 2, 3, 5, 8, 13, 21>>[k]]]
           red_fib == Count(fib_colors, R)
           black_fib == Count(fib_colors, B)
       IN IF red_fib > black_fib + 1
            THEN Sig(R, QMin(QI(60 + (red_fib - black_fib) * 5), QI(80)))
          ELSE IF black_fib > red_fib + 1
            THEN Sig(B, QMin(QI(60 + (black_fib - red_fib) * 5), QI(80)))
          ELSE Sig(R, QI(52))

analyze_with_estatistica(colors) ==
  IF Len(colors) < 30 THEN Sig(R, QI(50))
  ELSE LET total == Len(colors)
           red_total == Count(colors, R)
           black_total == Count(colors, B)
           expected == Q(total * 973, 2000)
           red_deviation == QSub(QI(red_total), expected)
           black_deviation == QSub(QI(black_total), expected)
           red_recent == Count(LastN(colors, 30), R)
       IN IF QLt(red_deviation, QI(-3))
            THEN Sig(R, QMin(QAdd(QI(55), QMul(QNeg(red_deviation), Q(3, 2))),
                             QI(78)))
          ELSE IF QLt(black_deviation, QI(-3))
            THEN Sig(B, QMin(QAdd(QI(55), QMul(QNeg(black_deviation), Q(3, 2))),
                             QI(78)))
          ELSE IF red_recent > 17 THEN Sig(B, QI(62))
          ELSE IF red_recent < 13 THEN Sig(R, QI(62))
          ELSE Sig(IF red_total <= black_total THEN R ELSE B, QI(51))

\* what analyze_with_ia_profunda can return: (red, 50) without an API key,
\* (red, 55) when the call fails, and otherwise what the language model's
\* reply says: red or black with a confidence clamped to 50..95
IaReplies == {Sig(R, QI(55)), Sig(B, QI(70))}

\* what random.uniform(0, 8) can return
Uniform08 == {QI(0), QI(4)}

\* strategy_results, in the order the dict is filled
StrategyResults(colors, ia_result) ==
  <<analyze_with_tendencia(colors), analyze_with_reversao(colors),
    analyze_with_alternancia(colors), analyze_with_fibonacci(colors),
    analyze_with_estatistica(colors), ia_result>>

IndexOf(name) == CHOOSE k \in DOMAIN StrategyNames : StrategyNames[k] = name

\* votes[color] after the loop over strategy_results
ServerVotes(results, color) ==
  QSum([k \in 1..6 |->
          IF results[k].color = color
            THEN QMul(StrategyWeight(StrategyNames[k]),
                      QMul(results[k].conf, Q(1, 100)))
            ELSE QI(0)])

\* total_confidence / sum of the weights
MeanConfidence(results) ==
  QMul(QSum([k \in 1..6 |->
               QMul(results[k].conf, StrategyWeight(StrategyNames[k]))]),
       Q(2, 13))

\* if final_confidence < min_prob: final_confidence = min_prob +
\* random.uniform(0, 8)
Jitter(final_confidence, min_prob, u) ==
  IF QLt(final_confidence, QI(min_prob))
    THEN QAdd(QI(min_prob), u) ELSE final_confidence

\* recommended_color, confidence and strategy_used of the dict
\* analyze_pattern_with_ai returns for a non-empty history; color is
\* "KeyError" when a strategy's colour is no key of votes
Analysis(colors, selected_strategy, had_recent_loss, min_prob, ia_result, u) ==
  LET results == StrategyResults(colors, ia_result)
      main_result == results[IndexOf(selected_strategy)]
      final_color ==
        IF had_recent_loss
          THEN (IF QGt(ServerVotes(results, R), ServerVotes(results, B))
                  THEN R ELSE B)
          ELSE main_result.color
      final_confidence ==
        IF had_recent_loss
          THEN QMax(main_result.conf, MeanConfidence(results))
          ELSE main_result.conf
  IN IF \E k \in 1..6 : results[k].color \notin {R, B}
       THEN [recommended_color |-> "KeyError", confidence |-> QI(0),
             strategy_used |-> selected_strategy]
       ELSE [recommended_color |-> final_color,
             confidence |-> Round2(Jitter(final_confidence, min_prob, u)),
             strategy_used |-> selected_strategy]

\* ------------------------------------------------------------------------
\* server.py: the request handlers and the result sources of one event
\* loop.  A coroutine gives up control at every await of a database call,
\* so the steps of update_predictions_with_result are separate actions.
\* ------------------------------------------------------------------------

\* results accepted and predictions made after the initial state, and the
\* last reading of the clock
MaxResults == 2
MaxPredictions == 2
MaxNow == 3

\* timedelta(minutes=2), and the 600 seconds of a recent loss
ExpiryMinutes == 2
RecentMinutes == 10

\* the clock is read every ClockStep minutes
ClockStep == 3

\* the coroutines that store a result and then call
\* update_predictions_with_result
Handlers == {"connect_to_blaze", "run_simulator", "add_result"}

\* the colours POST /api/result is sent
Submitted == {"red", "green"}

\* the rolls of the rounds the live feed completes, and the colours
\* run_simulator draws, that are followed
LiveRolls == {9}
SimulatorDraws == {"black"}

\* the initial states: the stored results, the min_probability of the
\* user's settings (70 when none are stored), the live feed connected or not
Starts ==
  {[seed |-> <<>>, min_probability |-> 70, live |-> FALSE],
   [seed |-> <<R, R, B, R, R, R, B, R, R, R, R, R>>, min_probability |-> 70,
    live |-> TRUE],
   [seed |-> <<R, R, B, B, R, R, W, W>>, min_probability |-> 70,
    live |-> FALSE]}

\* a handler that is not running
Idle ==
  [pc |-> "idle", color |-> "None", pending |-> <<>>, k |-> 0,
   perf |-> NewPerf, won |-> FALSE]

\* no handler is between two of its steps: the requests for a prediction
\* and the readings of the clock that the model follows fall between the
\* handling of results, not inside it
Quiet == \A t \in Handlers : tasks[t].pc = "idle"

\* every colour is let through
ValidColorAny(color) == TRUE

\* color_input.color in ['red', 'black', 'white']
ValidColor(color) == color \in {"red", "black", "white"}

\* the prediction document (the probabilities, the martingale levels and
\* the texts are left out: nothing reads them back)
PredictionDoc(id, user_id, analysis, t) ==
  [id |-> id, user_id |-> user_id,
   recommended_color |-> analysis.recommended_color,
   confidence |-> analysis.confidence,
   strategy_used |-> analysis.strategy_used,
   timestamp |-> t, status |-> "pending", actual_result |-> "None"]

\* datetime.now(timezone.utc) - pred_time > timedelta(minutes=2)
Expired(pred, t) == t - pred.timestamp > ExpiryMinutes

\* the index of the first prediction of pending, from index k on, that is
\* expired; Len(pending) + 1 when there is none
NextExpired(pending, k, t) ==
  IF \E j \in k..Len(pending) : Expired(pending[j], t)
    THEN CHOOSE j \in k..Len(pending) :
           /\ Expired(pending[j], t)
           /\ \A m \in k..(j - 1) : ~Expired(pending[m], t)
    ELSE Len(pending) + 1

IsPending(pred) == pred.status = "pending"

\* recent_losses: the user's predictions with status loss, made less than
\* 600 seconds ago (the query returns the five newest)
RecentLosses(predictions, user_id, t) ==
  Min(5, Cardinality({j \in DOMAIN predictions :
                        /\ predictions[j].user_id = user_id
                        /\ predictions[j].status = "loss"
                        /\ t - predictions[j].timestamp < RecentMinutes}))

\* [h['color'] for h in history[-100:]]
RecentColors(game_results) ==
  LET last == LastN(game_results, 100) IN
  [j \in DOMAIN last |-> last[j].color]

ServerInit ==
  /\ \E start \in Starts :
       /\ db = [game_results |->
                  [j \in DOMAIN start.seed |->
                     ResultDoc(start.seed[j], -1, "manual", 0)],
                predictions |-> <<>>,
                strategy_performance |-> [u \in {} |-> NewPerf],
                user_settings |-> [min_probability |-> start.min_probability]]
       /\ blaze_state =
            [connected |-> start.live,
             status |-> IF start.live THEN "connected" ELSE "disconnected",
             history |-> <<>>, last_color |-> "None", last_roll |-> -1,
             connection_attempts |-> 1]
  /\ tasks = [connect_to_blaze |-> Idle, run_simulator |-> Idle,
              add_result |-> Idle, events |-> 0, requests |-> 0]
  /\ sent = <<>>
  /\ now = 0
  /\ DriverOff
  /\ ScraperOff

\* POST /api/result up to its first await: the check of the colour and
\* db.game_results.insert_one
AddResult ==
  /\ tasks.add_result.pc = "idle"
  /\ tasks.events < MaxResults
  /\ \E color \in Submitted :
       IF ValidColor(color)
         THEN /\ db' = [db EXCEPT !.game_results =
                          Append(@, ResultDoc(color, -1, "manual", now))]
              /\ tasks' = [tasks EXCEPT
                             !.add_result = [Idle EXCEPT !.pc = "find",
                                                         !.color = color],
                             !.events = @ + 1]
              /\ sent' = sent
         ELSE /\ sent' = Append(sent, [type |-> "response", status |-> 400,
                                       color |-> color])
              /\ tasks' = [tasks EXCEPT !.events = @ + 1]
              /\ db' = db
  /\ UNCHANGED <<blaze_state, now, driverVars, scraper>>

\* a completed round arrives on the live feed: blaze_state is updated and
\* the result inserted
LiveResult ==
  /\ blaze_state.connected
  /\ tasks.connect_to_blaze.pc = "idle"
  /\ tasks.events < MaxResults
  /\ \E roll \in LiveRolls :
       LET color == parse_blaze_color(roll) IN
       /\ blaze_state' =
            [blaze_state EXCEPT
               !.last_color = color,
               !.last_roll = roll,
               !.history = Keep(HistoryEntry(color, roll, now), @)]
       /\ db' = [db EXCEPT !.game_results =
                   Append(@, ResultDoc(color, roll, "blaze_live", now))]
       /\ tasks' = [tasks EXCEPT
                      !.connect_to_blaze = [Idle EXCEPT !.pc = "find",
                                                        !.color = color],
                      !.events = @ + 1]
  /\ UNCHANGED <<sent, now, driverVars, scraper>>

\* a tick of run_simulator with the feed not connected: the result is
\* drawn and inserted
SimulatedResult ==
  /\ ~blaze_state.connected
  /\ tasks.run_simulator.pc = "idle"
  /\ tasks.events < MaxResults
  /\ \E color \in SimulatorDraws :
       /\ db' = [db EXCEPT !.game_results =
                   Append(@, ResultDoc(color, -1, "simulator", now))]
       /\ tasks' = [tasks EXCEPT
                      !.run_simulator = [Idle EXCEPT !.pc = "find",
                                                     !.color = color],
                      !.events = @ + 1]
  /\ UNCHANGED <<blaze_state, sent, now, driverVars, scraper>>

\* pending = await db.predictions.find({'status': 'pending'}).to_list(100),
\* and the walk to the first expired prediction
FindPending(t) ==
  /\ tasks[t].pc = "find"
  /\ LET pending == SelectSeq(db.predictions, IsPending)
         first == NextExpired(pending, 1, now)
     IN tasks' = [tasks EXCEPT
                    ![t].pending = pending,
                    ![t].k = first,
                    ![t].pc = IF first <= Len(pending)
                                THEN "set_status" ELSE "return"]
  /\ UNCHANGED <<db, blaze_state, sent, now, driverVars, scraper>>

\* await db.predictions.update_one({'id': pred['id']}, {'$set': ...})
SetStatus(t) ==
  /\ tasks[t].pc = "set_status"
  /\ LET pred == tasks[t].pending[tasks[t].k]
         hit == pred.recommended_color = tasks[t].color
     IN /\ db' = [db EXCEPT
                    !.predictions[pred.id].status =
                       IF hit THEN "win" ELSE "loss",
                    !.predictions[pred.id].actual_result = tasks[t].color]
        /\ tasks' = [tasks EXCEPT ![t].won = hit, ![t].pc = "get_perf"]
  /\ UNCHANGED <<blaze_state, sent, now, driverVars, scraper>>

\* perf = await get_user_strategy_performance(user_id), changed in memory
GetPerf(t) ==
  /\ tasks[t].pc = "get_perf"
  /\ LET pred == tasks[t].pending[tasks[t].k]
         perf == get_user_strategy_performance(db.strategy_performance,
                                               pred.user_id)
     IN /\ db' = [db EXCEPT !.strategy_performance =
                    Put(@, pred.user_id, perf)]
        /\ tasks' = [tasks EXCEPT
                       ![t].perf = Updated(perf, pred.strategy_used,
                                           tasks[t].won),
                       ![t].pc = "put_perf"]
  /\ UNCHANGED <<blaze_state, sent, now, driverVars, scraper>>

\* await db.strategy_performance.update_one(..., {"$set": perf}), the
\* broadcast of a loss, and the walk to the next expired prediction
PutPerf(t) ==
  /\ tasks[t].pc = "put_perf"
  /\ LET pred == tasks[t].pending[tasks[t].k]
         next == NextExpired(tasks[t].pending, tasks[t].k + 1, now)
     IN /\ db' = [db EXCEPT !.strategy_performance =
                    Put(@, pred.user_id, tasks[t].perf)]
        /\ sent' = IF tasks[t].won THEN sent
                   ELSE Append(sent, [type |-> "strategy_update",
                                      user_id |-> pred.user_id,
                                      strategy |-> pred.strategy_used])
        /\ tasks' = [tasks EXCEPT
                       ![t].k = next,
                       ![t].pc = IF next <= Len(tasks[t].pending)
                                   THEN "set_status" ELSE "return"]
  /\ UNCHANGED <<blaze_state, now, driverVars, scraper>>

\* update_predictions_with_result has returned: the feed and the simulator
\* broadcast the result, POST /api/result answers 200 with it
Return(t) ==
  /\ tasks[t].pc = "return"
  /\ sent' = Append(sent,
                    IF t = "add_result"
                      THEN [type |-> "response", status |-> 200,
                            color |-> tasks[t].color]
                      ELSE [type |-> "new_result", color |-> tasks[t].color,
                            simulated |-> t = "run_simulator"])
  /\ tasks' = [tasks EXCEPT ![t] = Idle]
  /\ UNCHANGED <<db, blaze_state, now, driverVars, scraper>>

\* GET /api/prediction of user u1
Predict ==
  /\ tasks.requests < MaxPredictions
  /\ Quiet
  /\ tasks' = [tasks EXCEPT !.requests = @ + 1]
  /\ LET user_id == "u1"
         colors == RecentColors(db.game_results)
         had_recent_loss == RecentLosses(db.predictions, user_id, now) > 0
         before == get_user_strategy_performance(db.strategy_performance,
                                                 user_id)
         after == IF Reanalyse(before, had_recent_loss)
                    THEN Reselected(before) ELSE before
         id == Len(db.predictions) + 1
     IN IF colors = <<>>
          THEN LET analysis == [recommended_color |-> R, confidence |-> QI(50),
                                strategy_used |-> "none"]
               IN /\ db' = [db EXCEPT !.predictions =
                              Append(@, PredictionDoc(id, user_id, analysis, now))]
                  /\ sent' = Append(sent,
                       [type |-> "prediction", status |-> 200,
                        recommended_color |-> analysis.recommended_color,
                        confidence |-> analysis.confidence,
                        colors |-> colors,
                        min_probability |-> db.user_settings.min_probability,
                        before |-> before, unchanged |-> TRUE])
          ELSE \E ia_result \in IaReplies, u \in Uniform08 :
                 LET analysis ==
                       Analysis(colors,
                                select_best_strategy(before, had_recent_loss),
                                had_recent_loss,
                                db.user_settings.min_probability, ia_result, u)
                     failed == analysis.recommended_color = "KeyError"
                 IN /\ db' = [db EXCEPT
                                !.strategy_performance = Put(@, user_id, after),
                                !.predictions =
                                   IF failed THEN @
                                   ELSE Append(@, PredictionDoc(id, user_id,
                                                                analysis, now))]
                    /\ sent' = Append(sent,
                         [type |-> "prediction",
                          status |-> IF failed THEN 500 ELSE 200,
                          recommended_color |-> analysis.recommended_color,
                          confidence |-> analysis.confidence,
                          colors |-> colors,
                          min_probability |-> db.user_settings.min_probability,
                          before |-> before, unchanged |-> after = before])
  /\ UNCHANGED <<blaze_state, now, driverVars, scraper>>

\* time passes
Tick ==
  /\ now < MaxNow
  /\ Quiet
  /\ now' = now + ClockStep
  /\ UNCHANGED <<db, blaze_state, tasks, sent, driverVars, scraper>>

ServerNext ==
  \/ AddResult
  \/ LiveResult
  \/ SimulatedResult
  \/ \E t \in Handlers : FindPending(t)
  \/ \E t \in Handlers : SetStatus(t)
  \/ \E t \in Handlers : GetPerf(t)
  \/ \E t \in Handlers : PutPerf(t)
  \/ \E t \in Handlers : Return(t)
  \/ Predict
  \/ Tick

ServerSpec == ServerInit /\ [][ServerNext]_vars

\* ------------------------------------------------------------------------
\* Properties of the simulation drivers (specification Spec)
\* ------------------------------------------------------------------------

\* the draws of the martingale attempt in progress or just resolved, in
\* draw order: mg of them while the ladder is running, mg + 1 once the
\* attempt is over
AttemptDraws ==
  LastN(history, IF pc = "play" THEN mg ELSE mg + 1)

\* the attempt entered at the last decision point is over
Resolved == pc \in {"loop", "done"} /\ decision.enter

C1Levels ==
  /\ pc = "play" =>
       /\ mg \in 0..max_mg
       /\ \A j \in 1..mg : AttemptDraws[j] # decision.color
  /\ (Resolved /\ won) =>
       /\ mg \in 0..max_mg
       /\ AttemptDraws[mg + 1] = decision.color
       /\ \A j \in 1..mg : AttemptDraws[j] # decision.color
  /\ (Resolved /\ ~won) =>
       /\ mg = max_mg
       /\ \A j \in 1..(max_mg + 1) : AttemptDraws[j] # decision.color

C1Step ==
  pc = "play" =>
    LET actual == history'[Len(history')] IN
    /\ history' = Append(history, actual)
    /\ IF actual = decision.color THEN
         /\ won' /\ mg' = mg /\ pc' = "loop"
         /\ stats'.wins = stats.wins + 1
         /\ stats'.losses = stats.losses
       ELSE IF mg = max_mg THEN
         /\ ~won' /\ mg' = mg /\ pc' = "loop"
         /\ stats'.losses = stats.losses + 1
         /\ stats'.wins = stats.wins
       ELSE
         /\ pc' = "play" /\ mg' = mg + 1
         /\ stats' = stats

\* C1: an entered attempt on colour c with max_mg levels draws one outcome
\* per level 0..max_mg in turn.  It is won at level L exactly when the draw at
\* level L is the first one equal to c (L <= max_mg), and then nothing more is
\* drawn for it; it is lost exactly when all max_mg + 1 draws differ from c.
\* A win adds one to wins only, a loss one to losses only, and a level that
\* misses below max_mg changes no counter.
C1Martingale == [][C1Step]_vars /\ []C1Levels

\* an attempt lost after all three levels, then one won at level 2
C1Witness ==
  /\ Resolved /\ won /\ mg = 2 /\ max_mg = 2
  /\ stats.losses = 1 /\ stats.wins = 1

\* the driver has just called the combiner on the current history
JustDecided == pc = "skip" \/ (pc = "play" /\ mg = 0)

C2Veto ==
  (variant \in Strict /\ Filter(variant, history).skip) =>
    LET d == Combiner(variant, history, min_confidence) IN
    /\ ~d.enter
    /\ d.color = "skip"
    /\ d.label = Filter(variant, history).reason
    /\ JustDecided => (pc = "skip" /\ decision = d)

C2Step ==
  pc = "skip" =>
    /\ stats'.entries = stats.entries
    /\ stats'.wins = stats.wins
    /\ stats'.losses = stats.losses
    /\ stats'.win_levels = stats.win_levels
    /\ stats'.skipped = stats.skipped + 1
    /\ Len(history') = Len(history) + 1
    /\ pc' = "loop"

\* C2: in v2, final, premium and ultra, when the filter gate returns skip
\* the combiner returns enter = FALSE with the filter's reason as its label,
\* whatever the heuristics would say, and the driver then places no bet: it
\* draws one outcome, counts one skipped decision point and leaves entries,
\* wins and losses alone.
C2FilterVeto == []C2Veto /\ [][C2Step]_vars

\* final has skipped its first decision point on the filter's verdict
C2Witness ==
  /\ variant = "final" /\ pc = "loop" /\ i = 1
  /\ stats.skipped = 1 /\ stats.entries = 0
  /\ LET before == SubSeq(history, 1, Len(history) - 1) IN
     /\ advanced_filter(before).skip
     /\ decision.label = advanced_filter(before).reason
     /\ FinalVote(FinalSignals(before)).enter

\* the draws the recorded wins account for: a win counted at level k - 1
\* took k draws
RECURSIVE DrawsOfWins(_, _)
DrawsOfWins(win_levels, k) ==
  IF k = 0 THEN 0 ELSE k * win_levels[k] + DrawsOfWins(win_levels, k - 1)

C5Length ==
  /\ Len(history) >= HistLen(variant) + i
  /\ (max_mg < Slots(variant)) =>
       Len(history) = HistLen(variant) + stats.skipped
                      + DrawsOfWins(stats.win_levels, Slots(variant))
                      + stats.losses * (max_mg + 1)
                      + (IF pc = "play" THEN mg ELSE 0)

C5Step ==
  /\ Len(history') >= Len(history)
  /\ SubSeq(history', 1, Len(history)) = history
  /\ pc = "loop" => history' = history
  /\ pc = "skip" =>
       /\ Len(history') = Len(history) + 1
       /\ history'[Len(history')] \in Colors
       /\ i' = i + 1
  /\ pc = "play" =>
       /\ Len(history') = Len(history) + 1
       /\ history'[Len(history')] \in Colors
       /\ IF pc' = "play" THEN mg' = mg + 1 /\ i' = i
          ELSE mg' = mg /\ i' = i + 1

\* C5: the history only grows during a simulation.  Nothing already in it is
\* changed or removed; the call of the combiner (filter and heuristics
\* included) leaves it as it is; a skipped decision point appends exactly
\* one drawn outcome; an entered one appends exactly the outcomes drawn for
\* its ladder levels, in draw order, one per level played.
C5AppendOnly == [][C5Step]_vars /\ []C5Length

\* one decision point skipped and one entered and resolved at a level past
\* the first: the history has grown by 1 + (mg + 1)
C5Witness ==
  /\ pc = "loop" /\ i = 2
  /\ stats.skipped = 1 /\ stats.entries = 1
  /\ mg >= 1
  /\ Len(history) = HistLen(variant) + 1 + (mg + 1)

\* strategy_anti_padrao disqualifies the history
AntiVeto(h) == Len(h) >= 10 /\ strategy_anti_padrao(h).color = "skip"

C14Reroute ==
  (variant = "lenient" /\ JustDecided /\ AntiVeto(history)) =>
    /\ decision.color = strategy_equilibrio_forcado(history, 30).color
    /\ decision.color \in {R, B}
    /\ decision.conf = QI(55)
    /\ decision.label = "equilibrio_conservador"
    /\ pc = (IF min_confidence <= 55 THEN "play" ELSE "skip")

C14Step ==
  (variant = "lenient" /\ pc = "loop" /\ pc' # "done" /\ AntiVeto(history)) =>
    IF min_confidence <= 55
      THEN /\ pc' = "play"
           /\ stats'.entries = stats.entries + 1
           /\ stats'.skipped = stats.skipped
           /\ stats'.strategies = Inc(stats.strategies, "equilibrio_conservador")
      ELSE /\ pc' = "skip"
           /\ stats' = stats

\* C14: in the lenient variant, when strategy_anti_padrao vetoes, the
\* combiner returns the colour of strategy_equilibrio_forcado with confidence
\* exactly 55 and the label equilibrio_conservador, whatever the voting
\* heuristics say; the driver bets on that decision only when its
\* min_confidence is 55 or less and otherwise counts a skip.
C14LenientReroute == []C14Reroute /\ [][C14Step]_vars

\* the lenient driver with min_confidence 65 has counted a skip for a
\* rerouted decision on which the vote would have reached 65
C14Witness ==
  /\ variant = "lenient" /\ min_confidence = 65
  /\ pc = "loop" /\ i = 1 /\ stats.skipped = 1
  /\ decision.label = "equilibrio_conservador"
  /\ LET before == SubSeq(history, 1, Len(history) - 1) IN
     /\ AntiVeto(before)
     /\ QGe(LenientVote(LenientSignals(before)).conf, QI(65))

\* the sum of the per-level win counters
RECURSIVE SumOf(_)
SumOf(s) == IF s = <<>> THEN 0 ELSE Head(s) + SumOf(Tail(s))

\* an attempt won at level mg adds one to the counter of level mg and to no
\* other; no other step changes a counter
C18Step ==
  IF pc = "play" /\ won' /\ pc' # "play"
    THEN /\ mg + 1 \in DOMAIN stats.win_levels
         /\ stats'.win_levels = [stats.win_levels EXCEPT ![mg + 1] = @ + 1]
    ELSE stats'.win_levels = stats.win_levels

C18Sum == pc # "error" /\ SumOf(stats.win_levels) = stats.wins

\* C18 as the specification states it: for every max_mg the driver accepts,
\* the counter of level L counts the attempts won at level L and the
\* counters sum to the wins
C18AsStated == [][C18Step]_vars /\ []C18Sum

\* with max_mg no larger than the deepest level that has a counter of its
\* own, the counter of level L counts the attempts won at level L and the
\* counters sum to the wins
C18WithinCounters ==
  /\ [][max_mg < Slots(variant) => C18Step]_vars
  /\ [](max_mg < Slots(variant) => C18Sum)

\* wins / entries * 100, and 0 for a run without entries
WinRate ==
  IF stats.entries > 0 THEN QMul(Q(stats.wins, stats.entries), QI(100))
  ELSE QI(0)

\* C19 as the specification states it: the statistics of every finished run
\* hold a win rate, wins / entries * 100, and 0 when the run had no entries
C19AsStated == pc = "done" => stats.win_rate = WinRate

\* the drivers other than simulate_ultra_optimized always set the win rate
C19OtherDrivers ==
  (pc = "done" /\ variant # "v2") => stats.win_rate = WinRate

\* the outcomes drawn since the run began
Drawn == Len(history) - HistLen(variant)

\* a finished run has gone through n_games decision points and drawn
\* between n_games and n_games * (max_mg + 1) outcomes
C20Finished ==
  pc = "done" =>
    /\ i = n_games
    /\ stats.entries + stats.skipped = n_games
    /\ Drawn >= n_games
    /\ Drawn <= n_games * (max_mg + 1)

\* C20 as the specification states it: for every n_games >= 0 and every
\* max_mg >= 0, whatever is drawn, the run does not abort and ends after
\* exactly n_games decision points with between n_games and
\* n_games * (max_mg + 1) outcomes drawn
C20AsStated == pc # "error" /\ C20Finished

\* the number of steps the run can still take: one per draw left in the
\* ladder, max_mg + 2 per decision point left, one for the final metrics
StepsLeft ==
  IF pc = "done" THEN 0
  ELSE IF pc = "loop" THEN (n_games - i) * (max_mg + 2) + 1
  ELSE IF pc = "skip" THEN (n_games - i - 1) * (max_mg + 2) + 2
  ELSE (n_games - i - 1) * (max_mg + 2) + 1 + (max_mg + 1 - mg)

\* the guard of one of the driver's steps holds: Decide or Finish in the
\* loop, SkipDraw and PlayDraw inside a decision point
CanStep ==
  \/ pc = "loop" /\ i <= n_games
  \/ pc \in {"skip", "play"} /\ i < n_games

\* with max_mg within the per-level counters every run ends: every step
\* lowers StepsLeft, which is never negative, a run that is not finished can
\* take a step, and a finished run satisfies C20Finished
C20WithinCounters ==
  /\ [][StepsLeft' < StepsLeft]_vars
  /\ [](StepsLeft >= 0 /\ (pc # "done" => CanStep) /\ C20Finished)

\* C21 (as stated): a run started with max_mg <= 0 fails before any outcome
\* is drawn and before any statistic changes: its history is the initial
\* one and its stats are the initial ones in every state
C21AsStated ==
  max_mg <= 0 =>
    /\ Len(history) = HistLen(variant)
    /\ stats = InitStats(variant)

\* the sum of the counts a defaultdict(int) holds
RECURSIVE Total(_)
Total(f) ==
  IF DOMAIN f = {} THEN 0
  ELSE LET k == CHOOSE x \in DOMAIN f : TRUE IN
       f[k] + Total([x \in DOMAIN f \ {k} |-> f[x]])

\* the sum of the wins and losses the premium driver holds per pattern
RECURSIVE PatternTotal(_)
PatternTotal(f) ==
  IF DOMAIN f = {} THEN 0
  ELSE LET k == CHOOSE x \in DOMAIN f : TRUE IN
       f[k].wins + f[k].losses + PatternTotal([x \in DOMAIN f \ {k} |-> f[x]])

\* the driver is between two decision points, or past the last one
AtBoundary == pc \in {"loop", "done"}

\* the count of f under key k, 0 when the dict does not hold the key
CountOf(f, k) == IF k \in DOMAIN f THEN f[k] ELSE 0

C24Balance ==
  AtBoundary =>
    /\ stats.entries = stats.wins + stats.losses
    /\ stats.entries + stats.skipped = i
    /\ pc = "done" => i = n_games
    /\ IF variant = "premium"
         THEN PatternTotal(stats.patterns) = stats.entries
         ELSE Total(stats.strategies) = stats.entries
    /\ variant \in {"v2", "final", "ultra"} =>
         Total(stats.skip_reasons) = stats.skipped

C24Step ==
  /\ stats'.entries >= stats.entries
  /\ stats'.wins >= stats.wins
  /\ stats'.losses >= stats.losses
  /\ stats'.skipped >= stats.skipped
  /\ \A k \in DOMAIN stats.win_levels :
       stats'.win_levels[k] >= stats.win_levels[k]
  /\ \A k \in DOMAIN stats.strategies :
       CountOf(stats'.strategies, k) >= stats.strategies[k]
  /\ \A k \in DOMAIN stats.skip_reasons :
       CountOf(stats'.skip_reasons, k) >= stats.skip_reasons[k]
  /\ \A k \in DOMAIN stats.patterns :
       /\ k \in DOMAIN stats'.patterns
       /\ stats'.patterns[k].wins >= stats.patterns[k].wins
       /\ stats'.patterns[k].losses >= stats.patterns[k].losses

LeastOf(S) == CHOOSE k \in S : \A j \in S : k <= j

\* the conditions of the two filters that hold of a history
FinalFiring(h) == {k \in 1..6 : FinalCond(k, h)}
UltraFiring(h) == {k \in 1..7 : UltraCond(k, h)}

\* C3: advanced_filter and ultra_filter test their conditions in the order
\* insufficient history, recent White, balanced colours, chaotic
\* alternation, long streak, perfect alternation and (ultra only)
\* contradictory trend; the verdict is (TRUE, reason of the first condition
\* that holds), and (FALSE, "ok") exactly when none holds.
C3FilterOrder ==
  /\ advanced_filter(history) =
       IF FinalFiring(history) = {} THEN Verdict(FALSE, "ok")
       ELSE Verdict(TRUE, FinalReason(LeastOf(FinalFiring(history))))
  /\ ultra_filter(history) =
       IF UltraFiring(history) = {} THEN Verdict(FALSE, "ok")
       ELSE Verdict(TRUE, UltraReason(LeastOf(UltraFiring(history))))
  /\ (pc = "ret" /\ variant = "final" /\ FinalFiring(history) # {}) =>
       decision.label = FinalReason(LeastOf(FinalFiring(history)))
  /\ (pc = "ret" /\ variant = "ultra" /\ UltraFiring(history) # {}) =>
       decision.label = UltraReason(LeastOf(UltraFiring(history)))

\* final was called on a history that is balanced and ends in a long
\* streak, and answered with the earlier of the two reasons
C3Witness ==
  /\ pc = "ret" /\ variant = "final"
  /\ FinalFiring(history) = {3, 5}
  /\ decision = Dec("skip", QI(0), "equilibrado", FALSE)

\* the current run of one colour, Whites left out of the count
CurrentRun(h) == RunAtEnd(NonWhite(h))

Skips(d) == ~d.enter /\ d.color = "skip"

\* C4 as the specification states it: a run of 6 or more, Whites left out,
\* makes the v2, final and ultra combiners skip
C4AsStated ==
  (pc = "ret" /\ variant \in {"v2", "final", "ultra"}
     /\ CurrentRun(history) >= 6) => Skips(decision)

\* C4: when the current run of one colour, Whites left out, is 6 or longer,
\* the final and ultra combiners return skip.  The v2 combiner returns skip
\* when the last 7 or more outcomes are one and the same non-White colour (a
\* White ends its run).
C4LongRun ==
  /\ CurrentRun(history) >= 6 =>
       /\ Skips(final_combined_strategy(history))
       /\ Skips(ultra_combined(history))
       /\ (pc = "ret" /\ variant \in {"final", "ultra"}) => Skips(decision)
  /\ RawStreak(history) >= 7 =>
       /\ Skips(ultra_combined_strategy(history))
       /\ (pc = "ret" /\ variant = "v2") => Skips(decision)

\* final was called on a history whose only fault is a run of exactly six
\* with a White inside it
C4Witness ==
  /\ pc = "ret" /\ variant = "final"
  /\ CurrentRun(history) = 6
  /\ RunAtEnd(history) < 6
  /\ FinalFiring(history) = {5}
  /\ decision = Dec("skip", QI(0), "sequencia_longa", FALSE)
  /\ FinalVote(FinalSignals(history)).enter

\* the three combiners that vote and can refuse to enter
StrictVoting == {"v2", "final", "ultra"}

\* the share of the tally a colour must reach for a consensus entry
ConsensusBar(v) ==
  CASE v = "v2" -> Q(65, 100) [] v = "final" -> Q(70, 100)
    [] v = "ultra" -> Q(75, 100)

\* the confidence of the best heuristic that overrides a missing consensus
OverrideBar(v) ==
  CASE v = "v2" -> QI(70) [] v = "final" -> QI(75) [] v = "ultra" -> QI(85)

Tally(v, h) == QAdd(Votes(v, Signals(v, h), R), Votes(v, Signals(v, h), B))

RedShare(v, h) == QDiv(Votes(v, Signals(v, h), R), Tally(v, h))

ConsensusReached(v, h) ==
  /\ Tally(v, h) # QI(0)
  /\ \/ QGe(RedShare(v, h), ConsensusBar(v))
     \/ QLe(RedShare(v, h), QSub(QI(1), ConsensusBar(v)))

OverrideReached(v, h) == QGe(BestOf(v, Signals(v, h)).conf, OverrideBar(v))

\* C7: the v2, final and ultra combiners enter only when one colour's share
\* of the tally reaches the variant's consensus bar (0.65, 0.70, 0.75, or at
\* most 0.35, 0.30, 0.25 for the other colour) or the best surviving
\* heuristic's confidence reaches the variant's override bar (70, 75, 85);
\* in every other case the decision is a skip with enter = FALSE.
C7EnterOnlyOnConsensus ==
  (pc = "ret" /\ variant \in StrictVoting) =>
    /\ decision.enter =>
         (ConsensusReached(variant, history) \/ OverrideReached(variant, history))
    /\ ~(ConsensusReached(variant, history) \/ OverrideReached(variant, history))
         => Skips(decision)

\* v2 has entered on the override alone: the tally is split, the best
\* heuristic is at 70 or more
C7Witness ==
  /\ pc = "ret" /\ variant = "v2" /\ decision.enter
  /\ ~ConsensusReached("v2", history)
  /\ OverrideReached("v2", history)

\* the label of the skip a combiner returns on an empty tally
NoVoteLabel(v) ==
  CASE v = "v2" -> "sem_consenso" [] v = "final" -> "sem_sinal"
    [] v = "ultra" -> "sem_sinal_forte"

\* C8: when no heuristic's vote survives, so that the red tally plus the
\* black tally is 0, the combiner returns a skip decision (enter = FALSE,
\* labelled as no consensus / no signal) and neither raises nor divides by
\* the empty tally.  In the lenient combiner the tally is never empty.
C8EmptyTally ==
  /\ (pc = "ret" /\ variant \in StrictVoting
        /\ Tally(variant, history) = QI(0)) =>
       /\ Skips(decision)
       /\ ~Filter(variant, history).skip => decision.label = NoVoteLabel(variant)
  /\ (pc = "ret" /\ variant = "lenient") =>
       Tally("lenient", history) # QI(0)

\* final was called on a history its filter lets through and on which none
\* of its heuristics reaches the minimum
C8Witness ==
  /\ pc = "ret" /\ variant = "final"
  /\ ~advanced_filter(history).skip
  /\ Tally("final", history) = QI(0)
  /\ decision = Dec("skip", QI(0), "sem_sinal", FALSE)

\* the combiner got as far as consulting its heuristics on h
Consulted(v, h) ==
  IF v = "lenient"
    THEN Len(h) >= 10 /\ strategy_anti_padrao(h).color # "skip"
    ELSE ~Filter(v, h).skip /\ (v = "v2" => ~Raises(V2Signals(h)))

\* the outputs the specification says are discarded: a Skip, or a
\* confidence below the variant's minimum (v2 keeps confidence > 55, final
\* >= 60, ultra >= 70; for the lenient variant the neutral default of 50)
Discarded(v, s) ==
  \/ s.color \notin {R, B}
  \/ CASE v = "v2" -> QLe(s.conf, QI(55))
       [] v = "final" -> QLt(s.conf, QI(60))
       [] v = "ultra" -> QLt(s.conf, QI(70))
       [] v = "lenient" -> QLe(s.conf, QI(50))

\* sigs without its k-th element
Without(sigs, k) ==
  SubSeq(sigs, 1, k - 1) \o SubSeq(sigs, k + 1, Len(sigs))

\* the decision of a strict voting combiner from its heuristics' outputs
VoteOf(v, sigs, h) ==
  CASE v = "v2" -> V2Vote(sigs, h)
    [] v = "final" -> FinalVote(sigs)
    [] v = "ultra" -> UltraVote(sigs)

\* the k-th output adds nothing to either tally and is not the best
AddsNothing(v, sigs, k) ==
  /\ Votes(v, Without(sigs, k), R) = Votes(v, sigs, R)
  /\ Votes(v, Without(sigs, k), B) = Votes(v, sigs, B)
  /\ BestOf(v, sigs).name # sigs[k].name

\* C9 as the specification states it: in every voting combiner a heuristic
\* that returns Skip, or a confidence below the minimum (the neutral default
\* included), adds nothing to either tally and is never the best one
C9AsStated ==
  (pc = "ret" /\ variant \in Voting /\ Consulted(variant, history)) =>
    LET sigs == Signals(variant, history) IN
    \A k \in DOMAIN sigs :
      Discarded(variant, sigs[k]) => AddsNothing(variant, sigs, k)

\* in the v2, final and ultra combiners the outputs below the minimum are
\* discarded: they add nothing, are never the best, and the decision is the
\* one taken without them
C9StrictDiscards ==
  (pc = "ret" /\ variant \in StrictVoting /\ Consulted(variant, history)) =>
    LET sigs == Signals(variant, history) IN
    \A k \in DOMAIN sigs :
      Discarded(variant, sigs[k]) =>
        /\ AddsNothing(variant, sigs, k)
        /\ VoteOf(variant, Without(sigs, k), history) = decision

\* the confidences a heuristic's output is raised to
ConfGrid == {QI(x) : x \in {50, 55, 56, 60, 65, 70, 75, 80, 85, 90, 95, 100}}

\* sigs with the confidence of its k-th output replaced by q
Raised(sigs, k, q) == [sigs EXCEPT ![k].conf = q]

\* C10: with the colour of a heuristic's output and every other heuristic's
\* output fixed, raising that heuristic's confidence never lowers the tally
\* of its own colour and never raises the tally of the other colour.
C10Monotone ==
  (pc = "ret" /\ variant \in Voting /\ Consulted(variant, history)) =>
    LET sigs == Signals(variant, history) IN
    \A k \in DOMAIN sigs : \A q \in ConfGrid :
      QGe(q, sigs[k].conf) =>
        LET up == Raised(sigs, k, q) IN
        \A c \in {R, B} :
          IF c = sigs[k].color
            THEN QGe(Votes(variant, up, c), Votes(variant, sigs, c))
            ELSE QLe(Votes(variant, up, c), Votes(variant, sigs, c))

\* ultra was called on a history where one of its heuristics proposes a
\* colour at less than 95: raising it to 95 raises its colour's tally and
\* leaves the other tally as it was
C10Witness ==
  /\ pc = "ret" /\ variant = "ultra" /\ Consulted("ultra", history)
  /\ \E k \in DOMAIN UltraSignals(history) :
       LET s == UltraSignals(history)[k]
           up == Raised(UltraSignals(history), k, QI(95))
       IN /\ s.color \in {R, B}
          /\ QLt(s.conf, QI(95))
          /\ QGt(Votes("ultra", up, s.color),
                 Votes("ultra", UltraSignals(history), s.color))
          /\ Votes("ultra", up, Opposite(s.color)) =
               Votes("ultra", UltraSignals(history), Opposite(s.color))

\* the consensus and override bars of all four voting combiners
BarOf(v) == IF v = "lenient" THEN Q(60, 100) ELSE ConsensusBar(v)

OverrideOf(v) == IF v = "lenient" THEN QI(65) ELSE OverrideBar(v)

\* the tally is split: neither colour's share reaches the consensus bar
SplitTally(v, h) ==
  /\ Tally(v, h) # QI(0)
  /\ QLt(RedShare(v, h), BarOf(v))
  /\ QGt(RedShare(v, h), QSub(QI(1), BarOf(v)))

C12TwoAgreeOrStrong ==
  (pc = "ret" /\ variant = "ultra") =>
    LET valid == Surviving("ultra", UltraSignals(history))
        best == BestOf("ultra", UltraSignals(history))
    IN
    /\ decision.enter =>
         \/ Agreeing(valid, decision.color) >= 2
         \/ QGe(best.conf, QI(85))
    /\ (Len(valid) = 1 /\ QLt(best.conf, QI(85))) => Skips(decision)

\* ultra's filter let the history through, a single heuristic survived with
\* less than 85 and the whole tally, and the combiner refused to enter
C12Witness ==
  /\ pc = "ret" /\ variant = "ultra" /\ ~ultra_filter(history).skip
  /\ Len(Surviving("ultra", UltraSignals(history))) = 1
  /\ QLt(BestOf("ultra", UltraSignals(history)).conf, QI(85))
  /\ RedShare("ultra", history) \in {QI(0), QI(1)}
  /\ decision = Dec("skip", QI(0), "consenso_insuficiente", FALSE)

\* the lowest and the highest confidence of an entering decision
BandLow(v) ==
  CASE v \in {"v2", "final"} -> QI(65) [] v = "ultra" -> QI(73)
    [] v = "premium" -> QI(78)

BandHigh(v) == IF v \in {"v2", "final"} THEN QI(92) ELSE QI(95)

\* C13: every decision with enter = TRUE has colour red or black and a
\* confidence inside the variant's band: 65 to 92 for v2 and final, 73 to 95
\* for ultra, 78 to 95 for premium; every decision of any variant has a
\* confidence between 0 and 100.
C13Bands ==
  pc = "ret" =>
    /\ QGe(decision.conf, QI(0)) /\ QLe(decision.conf, QI(100))
    /\ decision.enter => decision.color \in {R, B}
    /\ (decision.enter /\ variant \in Strict) =>
         /\ QGe(decision.conf, BandLow(variant))
         /\ QLe(decision.conf, BandHigh(variant))

\* v2 has entered on a consensus whose contributing confidences average
\* less than 65: the bonus carried the decision into the band
C13Witness ==
  /\ pc = "ret" /\ variant = "v2" /\ decision.enter
  /\ ConsensusReached("v2", history)
  /\ QLt(QMean(ConfsOf(Surviving("v2", V2Signals(history)), decision.color)),
         QI(65))
  /\ QGe(decision.conf, QI(65)) /\ QLe(decision.conf, QI(92))

\* s ends in n pairs: equal colours within a pair, different colours in
\* adjacent pairs
BlockTail(s, n) ==
  /\ Len(s) >= 2 * n
  /\ LET t == LastN(s, 2 * n) IN
     /\ \A j \in 1..n : t[2 * j - 1] = t[2 * j]
     /\ \A j \in 1..(n - 1) : t[2 * j] # t[2 * j + 1]

\* the pattern heuristic of the three variants that have the 2-2 rule
PatternOf(v, h) ==
  CASE v = "lenient" -> strategy_padrao_duplo(h)
    [] v = "final" -> final_pattern_strategy(h)
    [] v = "ultra" -> ultra_pattern(h)

\* C15 as the specification states it: whenever the history with its Whites
\* removed ends in a period-2 block pattern (four pairs, as in R,R,B,B,R,R,B,B)
\* the pattern heuristic proposes the colour opposite to the last pair with a
\* confidence of 72 or more
C15AsStated ==
  (pc = "ret" /\ variant \in {"lenient", "final", "ultra"}
     /\ BlockTail(NonWhite(history), 4)) =>
    LET nw == NonWhite(history) IN
    /\ PatternOf(variant, history).color = Opposite(nw[Len(nw)])
    /\ QGe(PatternOf(variant, history).conf, QI(72))

\* C15: final_pattern_strategy, on a history of 12 or more whose last 12
\* outcomes hold at least 8 non-White ones ending in three pairs, proposes the
\* colour opposite to the last pair with confidence 78; ultra_pattern, on a
\* history of 15 or more whose last 15 outcomes hold at least 10 non-White
\* ones ending in four pairs, proposes it with confidence 85;
\* strategy_padrao_duplo looks at the last six outcomes as drawn, Whites
\* included, and when they are three pairs proposes black after a red and
\* red otherwise, with confidence 72.
C15Pattern ==
  /\ (pc = "ret" /\ variant = "final" /\ Len(history) >= 12
        /\ Len(NonWhite(LastN(history, 12))) >= 8
        /\ BlockTail(NonWhite(LastN(history, 12)), 3)) =>
       LET nw == NonWhite(LastN(history, 12)) IN
       final_pattern_strategy(history) = Sig(Opposite(nw[Len(nw)]), QI(78))
  /\ (pc = "ret" /\ variant = "ultra" /\ Len(history) >= 15
        /\ Len(NonWhite(LastN(history, 15))) >= 10
        /\ BlockTail(NonWhite(LastN(history, 15)), 4)) =>
       LET nw == NonWhite(LastN(history, 15)) IN
       ultra_pattern(history) = Sig(Opposite(nw[Len(nw)]), QI(85))
  /\ (pc = "ret" /\ variant = "lenient" /\ BlockTail(history, 3)) =>
       strategy_padrao_duplo(history) =
         Sig(IF history[Len(history)] = R THEN B ELSE R, QI(72))

\* final was called on a history whose last outcomes, once a White among
\* them is removed, are three pairs, and its pattern heuristic proposed the
\* colour opposite to the last pair
C15Witness ==
  /\ pc = "ret" /\ variant = "final" /\ Len(history) >= 12
  /\ Count(LastN(history, 7), W) = 1
  /\ BlockTail(NonWhite(LastN(history, 12)), 3)
  /\ Len(NonWhite(LastN(history, 12))) >= 8
  /\ final_pattern_strategy(history).conf = QI(78)

\* the heuristics of a variant, by the name of the function
HeuristicsOf(v) ==
  CASE v = "lenient" ->
         {"strategy_tendencia_v2", "strategy_reversao_v2",
          "strategy_padrao_duplo", "strategy_equilibrio_forcado",
          "strategy_anti_padrao", "strategy_momentum"}
    [] v = "v2" ->
         {"strategy_smart_trend", "strategy_smart_reversal",
          "strategy_pattern_recognition", "strategy_statistical_edge"}
    [] v = "final" ->
         {"final_trend_strategy", "final_reversal_strategy",
          "final_pattern_strategy"}
    [] v = "ultra" -> {"ultra_trend", "ultra_reversal", "ultra_pattern"}
    [] v = "premium" -> {"detect_high_confidence_pattern"}

\* what the heuristic returns on h, with the arguments its combiner gives it
HeuristicOn(f, h) ==
  CASE f = "strategy_tendencia_v2" -> strategy_tendencia_v2(h, 15)
    [] f = "strategy_reversao_v2" -> strategy_reversao_v2(h, 4)
    [] f = "strategy_padrao_duplo" -> strategy_padrao_duplo(h)
    [] f = "strategy_equilibrio_forcado" -> strategy_equilibrio_forcado(h, 30)
    [] f = "strategy_anti_padrao" -> strategy_anti_padrao(h)
    [] f = "strategy_momentum" -> strategy_momentum(h)
    [] f = "strategy_smart_trend" -> strategy_smart_trend(h)
    [] f = "strategy_smart_reversal" -> strategy_smart_reversal(h)
    [] f = "strategy_pattern_recognition" -> strategy_pattern_recognition(h)
    [] f = "strategy_statistical_edge" -> strategy_statistical_edge(h)
    [] f = "final_trend_strategy" -> final_trend_strategy(h)
    [] f = "final_reversal_strategy" -> final_reversal_strategy(h)
    [] f = "final_pattern_strategy" -> final_pattern_strategy(h)
    [] f = "ultra_trend" -> ultra_trend(h)
    [] f = "ultra_reversal" -> ultra_reversal(h)
    [] f = "ultra_pattern" -> ultra_pattern(h)
    [] f = "detect_high_confidence_pattern" -> detect_high_confidence_pattern(h)

\* the length below which the heuristic gives its default
MinLengthOf(f) ==
  CASE f = "strategy_tendencia_v2" -> 15
    [] f = "strategy_reversao_v2" -> 5
    [] f = "strategy_padrao_duplo" -> 6
    [] f = "strategy_equilibrio_forcado" -> 30
    [] f = "strategy_anti_padrao" -> 10
    [] f = "strategy_momentum" -> 8
    [] f = "strategy_smart_trend" -> 30
    [] f = "strategy_smart_reversal" -> 8
    [] f = "strategy_pattern_recognition" -> 12
    [] f = "strategy_statistical_edge" -> 50
    [] f = "final_trend_strategy" -> 40
    [] f = "final_reversal_strategy" -> 15
    [] f = "final_pattern_strategy" -> 12
    [] f = "ultra_trend" -> 50
    [] f = "ultra_reversal" -> 20
    [] f = "ultra_pattern" -> 15
    [] f = "detect_high_confidence_pattern" -> 30

\* the default: ('red', 50) in backtest.py and backtest_v2.py, ('skip', 0)
\* in strategy_anti_padrao, backtest_final.py and backtest_ultra.py,
\* ('skip', 0, 'historico_insuficiente') in backtest_premium.py
DefaultOf(f) ==
  IF f = "detect_high_confidence_pattern"
    THEN [color |-> "skip", conf |-> QI(0), pattern |-> "historico_insuficiente"]
  ELSE IF f \in HeuristicsOf("final") \cup HeuristicsOf("ultra")
            \cup {"strategy_anti_padrao"}
    THEN [color |-> "skip", conf |-> QI(0)]
  ELSE [color |-> R, conf |-> QI(50)]

\* C16: on a history shorter than its minimum length every heuristic returns
\* its fixed default, the same value whatever the history holds, and raises
\* no error.
C16ShortHistory ==
  pc = "ret" =>
    \A f \in HeuristicsOf(variant) :
      Len(history) < MinLengthOf(f) => HeuristicOn(f, history) = DefaultOf(f)

\* final was called on a history of fewer than 12 outcomes that ends in
\* three pairs: its pattern heuristic returned ('skip', 0) all the same
C16Witness ==
  /\ pc = "ret" /\ variant = "final" /\ Len(history) < 12
  /\ Len(NonWhite(history)) >= 8
  /\ BlockTail(NonWhite(history), 3)
  /\ final_pattern_strategy(history) = [color |-> "skip", conf |-> QI(0)]

\* C17 as the specification states it: on every history, trailing windows
\* of Whites only included, every heuristic and combiner returns a value and
\* none raises
C17AsStated ==
  pc = "ret" =>
    /\ decision.color # "ZeroDivisionError"
    /\ \A f \in HeuristicsOf(variant) :
         HeuristicOn(f, history).color # "ZeroDivisionError"

\* the combiners themselves never raise: should_skip_entry returns skip on
\* two Whites in the last 15 before strategy_statistical_edge is consulted
C17CombinersReturn == pc = "ret" => decision.color # "ZeroDivisionError"

\* ------------------------------------------------------------------------
\* Properties of the scraper (specification ScraperSpec)
\* ------------------------------------------------------------------------

\* two results are the same round to the scraper: same roll and same time
SameRodada(a, b) == a.roll = b.roll /\ a.time = b.time

\* the results posted by the step
PostedNow == SubSeq(scraper'.posted, Len(scraper.posted) + 1, Len(scraper'.posted))

\* the newest result of the last batch sent, <<>> before any was sent
LastSent == IF scraper.posted = <<>> THEN <<>> ELSE <<scraper.posted[Len(scraper.posted)]>>

C30Step ==
  scraper'.polls = scraper.polls + 1 =>
    LET results == scraper'.results IN
    /\ IF /\ results # <<>>
          /\ (LastSent = <<>> \/ ~SameRodada(LastSent[1], results[1]))
         THEN PostedNow = <<results[1]>>
         ELSE PostedNow = <<>>
    /\ (/\ scraper.is_new
        /\ results # <<>>
        /\ SameRodada(scraper.results[1], results[1])) => PostedNow = <<>>

\* no two results posted one after the other are the same round
C30NoRepeat ==
  \A k \in 1..(Len(scraper.posted) - 1) :
     ~SameRodada(scraper.posted[k], scraper.posted[k + 1])

\* C30: a poll posts a result only if the newest scraped result differs in
\* roll or time from the newest result of the last batch sent (or none was
\* sent yet), and then it posts exactly that one result; a newest result
\* posted by one poll is not posted by the next, and no round is posted
\* twice in a row
C30PostsNewOnly == [][C30Step]_vars /\ []C30NoRepeat

\* a poll found the round it had last posted and posted nothing, after a
\* poll that posted
C30Witness ==
  /\ scraper.polls >= 2
  /\ scraper.posted # <<>>
  /\ scraper.results # <<>>
  /\ ~scraper.is_new
  /\ SameRodada(scraper.results[1], scraper.posted[Len(scraper.posted)])

\* ------------------------------------------------------------------------
\* Properties of the strategy state (specification PerfSpec)
\* ------------------------------------------------------------------------

\* the results recorded for a user under a known strategy name, in order
RECURSIVE Recorded(_, _)
Recorded(log, user_id) ==
  IF log = <<>> THEN <<>>
  ELSE LET e == log[Len(log)]
           rest == Recorded(SubSeq(log, 1, Len(log) - 1), user_id)
       IN IF e.op = "update" /\ e.user_id = user_id /\ e.strategy \in STRATEGIES
            THEN Append(rest, e) ELSE rest

\* the results among them recorded for one strategy
RECURSIVE OfStrategy(_, _)
OfStrategy(results, name) ==
  IF results = <<>> THEN <<>>
  ELSE LET rest == OfStrategy(SubSeq(results, 1, Len(results) - 1), name)
           e == results[Len(results)]
       IN IF e.strategy = name THEN Append(rest, e) ELSE rest

\* how many of the results are wins (w = TRUE) or losses (w = FALSE)
RECURSIVE Outcomes(_, _)
Outcomes(results, w) ==
  IF results = <<>> THEN 0
  ELSE (IF results[Len(results)].won = w THEN 1 ELSE 0)
       + Outcomes(SubSeq(results, 1, Len(results) - 1), w)

\* the length of the run of equal outcomes the results end with
RECURSIVE LastRun(_)
LastRun(results) ==
  IF results = <<>> THEN 0
  ELSE IF Len(results) = 1 THEN 1
  ELSE IF results[Len(results)].won = results[Len(results) - 1].won
    THEN 1 + LastRun(SubSeq(results, 1, Len(results) - 1))
  ELSE 1

\* the losses the results end with
LossesAtEnd(results) ==
  IF results = <<>> \/ results[Len(results)].won THEN 0 ELSE LastRun(results)

\* the stored strategy state of a user, a new user's being NewPerf
PerfOf(user_id) ==
  get_user_strategy_performance(db.strategy_performance, user_id)

C26State ==
  \A user_id \in Users :
     LET results == Recorded(sent, user_id)
         perf == PerfOf(user_id)
     IN /\ perf.total_losses_streak = LossesAtEnd(results)
        /\ \A name \in STRATEGIES :
              LET mine == OfStrategy(results, name)
                  data == perf.strategies[name]
              IN /\ data.wins = Outcomes(mine, TRUE)
                 /\ data.losses = Outcomes(mine, FALSE)
                 /\ data.streak =
                      IF mine = <<>> THEN 0
                      ELSE IF mine[Len(mine)].won THEN LastRun(mine)
                      ELSE 0 - LastRun(mine)

\* a result recorded under a name that is not a strategy's leaves the
\* strategy state of every user as it was
C26Step ==
  (/\ Len(sent') = Len(sent) + 1
   /\ sent'[Len(sent')].op = "update"
   /\ sent'[Len(sent')].strategy \notin STRATEGIES)
  => \A user_id \in Users :
        get_user_strategy_performance(db'.strategy_performance, user_id)
          = PerfOf(user_id)

Selected == Len(sent') = Len(sent) + 1 /\ sent'[Len(sent')].op = "select"

C27Step ==
  Selected =>
    LET call == sent'[Len(sent')]
        perf == PerfOf(call.user_id)
        after == get_user_strategy_performance(db'.strategy_performance,
                                               call.user_id)
        current == perf.current_strategy
    IN IF call.won \/ perf.total_losses_streak >= 2
         THEN /\ call.returned \in STRATEGIES \ {current}
              /\ \A name \in STRATEGIES \ {current} :
                    QLe(Score(perf, name), Score(perf, call.returned))
              /\ after.current_strategy = call.returned
              /\ after.strategies[current].last_loss_count = 0
              /\ after.total_losses_streak = perf.total_losses_streak
              /\ \A name \in STRATEGIES :
                    /\ after.strategies[name].wins = perf.strategies[name].wins
                    /\ after.strategies[name].losses = perf.strategies[name].losses
                    /\ after.strategies[name].streak = perf.strategies[name].streak
                    /\ name # current =>
                         after.strategies[name].last_loss_count =
                           perf.strategies[name].last_loss_count
         ELSE /\ call.returned = current
              /\ after = perf
              /\ \A u \in DOMAIN db.strategy_performance :
                    db'.strategy_performance[u] = db.strategy_performance[u]

LiveOpen == tasks.connect_to_blaze = "listen"

\* C28 (as stated): blaze_state.connected is true only while a live
\* connection is open
C28AsStated == blaze_state.connected => LiveOpen

\* the simulator stores a result on a tick only if connected is false at
\* that tick
C28SimulatorGated ==
  [][(/\ Len(db'.game_results) = Len(db.game_results) + 1
      /\ db'.game_results[Len(db'.game_results)].source = "simulator")
     => ~blaze_state.connected]_vars

IsLive(doc) == doc.source = "blaze_live"

\* the completed live rounds, oldest first, as stored in db.game_results
LiveRounds == SelectSeq(db.game_results, IsLive)

C29State ==
  LET h == blaze_state.history
      n == Len(LiveRounds)
  IN /\ Len(h) = Min(n, HistoryCap)
     /\ \A k \in 1..Len(h) :
           /\ h[k].color = LiveRounds[n + 1 - k].color
           /\ h[k].roll = LiveRounds[n + 1 - k].roll
           /\ h[k].timestamp = LiveRounds[n + 1 - k].timestamp
     /\ \A k \in 1..(Len(h) - 1) : h[k].timestamp > h[k + 1].timestamp

\* C29: after any sequence of completed live rounds blaze_state["history"]
\* holds at most 100 entries, newest first, and they are the 100 most
\* recent completed live rounds (all of them while fewer than 100 arrived)
C29LiveHistory == C29State /\ Len(blaze_state.history) <= HistoryCap

\* more than 100 live rounds have completed and the history is full
C29Witness ==
  /\ Len(LiveRounds) > HistoryCap
  /\ Len(blaze_state.history) = HistoryCap
  /\ blaze_state.history[1].timestamp = now


\* ------------------------------------------------------------------------
\* Properties of the request handlers (specification ServerSpec)
\* ------------------------------------------------------------------------

\* the answers of POST /api/result among the messages sent
IsResponse(e) == e.type = "response"

\* the step sent one more message, an answer of POST /api/result with the
\* given status
Answers(status) ==
  /\ Len(sent') = Len(sent) + 1
  /\ IsResponse(sent'[Len(sent')])
  /\ sent'[Len(sent')].status = status

\* an answer has status 400 exactly when its colour is none of red, black
\* and white
C23State ==
  \A j \in DOMAIN sent :
    IsResponse(sent[j]) =>
      /\ sent[j].status \in {200, 400}
      /\ sent[j].status = 400 <=> sent[j].color \notin {"red", "black", "white"}

\* the step that answers 400 stores nothing, resolves nothing, updates no
\* performance and sends no other message; the step that takes a result in
\* stores it, and the answer 200 carries the stored colour
C23Step ==
  /\ Answers(400) =>
       /\ db' = db
       /\ blaze_state' = blaze_state
       /\ \A t \in Handlers : tasks'[t] = tasks[t]
       /\ sent' = Append(sent, sent'[Len(sent')])
  /\ (tasks.add_result.pc = "idle" /\ tasks'.add_result.pc # "idle") =>
       /\ tasks'.add_result.color \in {"red", "black", "white"}
       /\ Len(db'.game_results) = Len(db.game_results) + 1
       /\ db'.game_results[Len(db'.game_results)].color =
            tasks'.add_result.color
       /\ db'.game_results[Len(db'.game_results)].source = "manual"
  /\ Answers(200) =>
       /\ sent'[Len(sent')].color = tasks.add_result.color
       /\ \E r \in DOMAIN db.game_results :
            /\ db.game_results[r].color = tasks.add_result.color
            /\ db.game_results[r].source = "manual"
            /\ db.game_results[r].timestamp <= now

\* C23: a result whose colour is not red, black or white is answered 400
\* and changes nothing: no result stored, no prediction resolved, no
\* strategy performance updated, nothing broadcast; a result with a valid
\* colour is stored and answered 200
C23Rejects == [][C23Step]_vars /\ []C23State

\* a colour was refused while a prediction was waiting, and a valid colour
\* was stored, resolved the prediction and was answered 200
C23Witness ==
  /\ \E j \in DOMAIN sent : IsResponse(sent[j]) /\ sent[j].status = 400
  /\ \E j \in DOMAIN sent : IsResponse(sent[j]) /\ sent[j].status = 200
  /\ \E p \in DOMAIN db.predictions : db.predictions[p].status # "pending"


\* the requests for a prediction among the messages sent
IsPrediction(e) == e.type = "prediction"

\* two requests made against the same history, the same settings and the
\* same stored performance got the same colour and the same confidence
C22Same ==
  \A j, k \in DOMAIN sent :
    (/\ IsPrediction(sent[j])
     /\ IsPrediction(sent[k])
     /\ sent[j].colors = sent[k].colors
     /\ sent[j].min_probability = sent[k].min_probability
     /\ sent[j].before = sent[k].before) =>
      /\ sent[j].recommended_color = sent[k].recommended_color
      /\ sent[j].confidence = sent[k].confidence

\* no request for a prediction changed the stored strategy state
C22Pure ==
  \A j \in DOMAIN sent : IsPrediction(sent[j]) => sent[j].unchanged

\* C22: two prediction requests against the same game history, the same
\* user settings and the same stored strategy performance return the same
\* recommended colour and the same confidence, and computing a prediction
\* does not change the stored strategy state
C22AsStated == C22Same /\ C22Pure


\* a prediction that has left pending keeps its status and its result
C25Step ==
  \A p \in DOMAIN db.predictions :
    db.predictions[p].status # "pending" =>
      /\ db'.predictions[p].status = db.predictions[p].status
      /\ db'.predictions[p].actual_result = db.predictions[p].actual_result

\* the number of the user's predictions made with a strategy that have the
\* given status
ResolvedAs(user_id, name, status) ==
  Cardinality({p \in DOMAIN db.predictions :
                 /\ db.predictions[p].user_id = user_id
                 /\ db.predictions[p].strategy_used = name
                 /\ db.predictions[p].status = status})

\* with no handler at work, every strategy's counters are the numbers of
\* its predictions resolved as win and as loss
C25Counted ==
  Quiet =>
    \A k \in DOMAIN StrategyNames :
      LET name == StrategyNames[k]
          perf == get_user_strategy_performance(db.strategy_performance, "u1")
      IN /\ perf.strategies[name].wins = ResolvedAs("u1", name, "win")
         /\ perf.strategies[name].losses = ResolvedAs("u1", name, "loss")

\* C25: each stored prediction is resolved at most once: its status goes
\* from pending to win or loss and never changes again, and its outcome is
\* added to its strategy's counters exactly once, also when results of the
\* live feed, the simulator and the manual endpoint are processed
\* concurrently
C25AsStated == [][C25Step]_vars /\ []C25Counted

====
